---- MODULE Spec2Model ----
(***************************************************************************)
(* Model of creditkudos/eidas: the qualified-statement codec               *)
(* (qcstatements.Serialize / Extract), the authority and role tables, the  *)
(* flavor-dependent extension selection and the assembly of a certificate  *)
(* request (GenerateCSR).                                                  *)
(*                                                                         *)
(* Go strings and byte slices are sequences of octets (a string is its     *)
(* UTF-8 encoding); a nil slice is the empty sequence.  An object          *)
(* identifier is a sequence of arcs.  A Go error is a string, "nil" for no *)
(* error.                                                                  *)
(***************************************************************************)
EXTENDS Integers, Sequences, FiniteSets, TLC

VARIABLES
    caMap,      \* qcstatements.caMap: country code -> CompetentAuthority
    pc,         \* position of the caller: "idle", or a step of GenerateCSR
    op,         \* the operation called last
    args,       \* its arguments
    ret,        \* what it returned
    key, ca, qc, keyUsage, extendedKeyUsage, extensions, subject,
                \* the locals of GenerateCSR
    signerCalls, \* calls of x509.CreateCertificateRequest made by the
                \* GenerateCSR in progress
    peer,       \* a second caller, running concurrently: its position, the
                \* operation it called last, its arguments and result
    cli         \* a run of cmd/cli: its position in main, its flags, its
                \* locals, the output files and the file operations so far

locals == <<key, ca, qc, keyUsage, extendedKeyUsage, extensions, subject, signerCalls>>
vars == <<caMap, pc, op, args, ret, locals, peer, cli>>

----------------------------------------------------------------------------
\* Bounds of the model.

\* Longest role list passed to a Serialize or to GenerateCSR.
MaxRoles == 2

----------------------------------------------------------------------------
\* Strings of the source and of the inputs, as UTF-8 octets.

\* "PSP_AS"
RoleAccountServicing == <<80, 83, 80, 95, 65, 83>>
\* "PSP_PI"
RolePaymentInitiation == <<80, 83, 80, 95, 80, 73>>
\* "PSP_AI"
RoleAccountInformation == <<80, 83, 80, 95, 65, 73>>
\* "PSP_IC"
RolePaymentInstruments == <<80, 83, 80, 95, 73, 67>>

\* var roleMap = map[Role]int{...}
roleMap ==
    (RoleAccountServicing :> 1) @@ (RolePaymentInitiation :> 2)
    @@ (RoleAccountInformation :> 3) @@ (RolePaymentInstruments :> 4)

\* The zero value a Go map of ints yields for a missing key.
roleMapAt(rv) == IF rv \in DOMAIN roleMap THEN roleMap[rv] ELSE 0

QSEALType == <<0, 4, 0, 1862, 1, 6, 2>>
QWACType == <<0, 4, 0, 1862, 1, 6, 3>>

\* The initial contents of caMap (ETSI TS 119 495 Annex D).
caMapInit ==
    \* "AT": {ID: "AT-FMA", Name: "Austria Financial Market Authority"}
       (<<65, 84>> :> [Name |-> <<65, 117, 115, 116, 114, 105, 97, 32, 70, 105, 110, 97, 110, 99, 105, 97, 108, 32, 77, 97, 114, 107, 101, 116, 32, 65, 117, 116, 104, 111, 114, 105, 116, 121>>,
        ID |-> <<65, 84, 45, 70, 77, 65>>])
    \* "BE": {ID: "BE-NBB", Name: "National Bank of Belgium"}
    @@ (<<66, 69>> :> [Name |-> <<78, 97, 116, 105, 111, 110, 97, 108, 32, 66, 97, 110, 107, 32, 111, 102, 32, 66, 101, 108, 103, 105, 117, 109>>,
        ID |-> <<66, 69, 45, 78, 66, 66>>])
    \* "BG": {ID: "BG-BNB", Name: "Bulgarian National Bank"}
    @@ (<<66, 71>> :> [Name |-> <<66, 117, 108, 103, 97, 114, 105, 97, 110, 32, 78, 97, 116, 105, 111, 110, 97, 108, 32, 66, 97, 110, 107>>,
        ID |-> <<66, 71, 45, 66, 78, 66>>])
    \* "HR": {ID: "HR-CNB", Name: "Croatian National Bank"}
    @@ (<<72, 82>> :> [Name |-> <<67, 114, 111, 97, 116, 105, 97, 110, 32, 78, 97, 116, 105, 111, 110, 97, 108, 32, 66, 97, 110, 107>>,
        ID |-> <<72, 82, 45, 67, 78, 66>>])
    \* "CY": {ID: "CY-CBC", Name: "Central Bank of Cyprus"}
    @@ (<<67, 89>> :> [Name |-> <<67, 101, 110, 116, 114, 97, 108, 32, 66, 97, 110, 107, 32, 111, 102, 32, 67, 121, 112, 114, 117, 115>>,
        ID |-> <<67, 89, 45, 67, 66, 67>>])
    \* "CZ": {ID: "CZ-CNB", Name: "Czech National Bank"}
    @@ (<<67, 90>> :> [Name |-> <<67, 122, 101, 99, 104, 32, 78, 97, 116, 105, 111, 110, 97, 108, 32, 66, 97, 110, 107>>,
        ID |-> <<67, 90, 45, 67, 78, 66>>])
    \* "DK": {ID: "DK-DFSA", Name: "Danish Financial Supervisory Authority"}
    @@ (<<68, 75>> :> [Name |-> <<68, 97, 110, 105, 115, 104, 32, 70, 105, 110, 97, 110, 99, 105, 97, 108, 32, 83, 117, 112, 101, 114, 118, 105, 115, 111, 114, 121, 32, 65, 117, 116, 104, 111, 114, 105, 116, 121>>,
        ID |-> <<68, 75, 45, 68, 70, 83, 65>>])
    \* "EE": {ID: "EE-FI", Name: "Estonia Financial Supervisory Authority"}
    @@ (<<69, 69>> :> [Name |-> <<69, 115, 116, 111, 110, 105, 97, 32, 70, 105, 110, 97, 110, 99, 105, 97, 108, 32, 83, 117, 112, 101, 114, 118, 105, 115, 111, 114, 121, 32, 65, 117, 116, 104, 111, 114, 105, 116, 121>>,
        ID |-> <<69, 69, 45, 70, 73>>])
    \* "FI": {ID: "FI-FINFSA", Name: "Finnish Financial Supervisory Authority"}
    @@ (<<70, 73>> :> [Name |-> <<70, 105, 110, 110, 105, 115, 104, 32, 70, 105, 110, 97, 110, 99, 105, 97, 108, 32, 83, 117, 112, 101, 114, 118, 105, 115, 111, 114, 121, 32, 65, 117, 116, 104, 111, 114, 105, 116, 121>>,
        ID |-> <<70, 73, 45, 70, 73, 78, 70, 83, 65>>])
    \* "FR": {ID: "FR-ACPR", Name: "Prudential Supervisory and Resolution Authority"}
    @@ (<<70, 82>> :> [Name |-> <<80, 114, 117, 100, 101, 110, 116, 105, 97, 108, 32, 83, 117, 112, 101, 114, 118, 105, 115, 111, 114, 121, 32, 97, 110, 100, 32, 82, 101, 115, 111, 108, 117, 116, 105, 111, 110, 32, 65, 117, 116, 104, 111, 114, 105, 116, 121>>,
        ID |-> <<70, 82, 45, 65, 67, 80, 82>>])
    \* "DE": {ID: "DE-BAFIN", Name: "Federal Financial Supervisory Authority"}
    @@ (<<68, 69>> :> [Name |-> <<70, 101, 100, 101, 114, 97, 108, 32, 70, 105, 110, 97, 110, 99, 105, 97, 108, 32, 83, 117, 112, 101, 114, 118, 105, 115, 111, 114, 121, 32, 65, 117, 116, 104, 111, 114, 105, 116, 121>>,
        ID |-> <<68, 69, 45, 66, 65, 70, 73, 78>>])
    \* "GR": {ID: "GR-BOG", Name: "Bank of Greece"}
    @@ (<<71, 82>> :> [Name |-> <<66, 97, 110, 107, 32, 111, 102, 32, 71, 114, 101, 101, 99, 101>>,
        ID |-> <<71, 82, 45, 66, 79, 71>>])
    \* "HU": {ID: "HU-CBH", Name: "Central Bank of Hungary"}
    @@ (<<72, 85>> :> [Name |-> <<67, 101, 110, 116, 114, 97, 108, 32, 66, 97, 110, 107, 32, 111, 102, 32, 72, 117, 110, 103, 97, 114, 121>>,
        ID |-> <<72, 85, 45, 67, 66, 72>>])
    \* "IS": {ID: "IS-FME", Name: "Financial Supervisory Authority"}
    @@ (<<73, 83>> :> [Name |-> <<70, 105, 110, 97, 110, 99, 105, 97, 108, 32, 83, 117, 112, 101, 114, 118, 105, 115, 111, 114, 121, 32, 65, 117, 116, 104, 111, 114, 105, 116, 121>>,
        ID |-> <<73, 83, 45, 70, 77, 69>>])
    \* "IE": {ID: "IE-CBI", Name: "Central Bank of Ireland"}
    @@ (<<73, 69>> :> [Name |-> <<67, 101, 110, 116, 114, 97, 108, 32, 66, 97, 110, 107, 32, 111, 102, 32, 73, 114, 101, 108, 97, 110, 100>>,
        ID |-> <<73, 69, 45, 67, 66, 73>>])
    \* "IT": {ID: "IT-BI", Name: "Bank of Italy"}
    @@ (<<73, 84>> :> [Name |-> <<66, 97, 110, 107, 32, 111, 102, 32, 73, 116, 97, 108, 121>>,
        ID |-> <<73, 84, 45, 66, 73>>])
    \* "LI": {ID: "LI-FMA", Name: "Financial Market Authority Liechtenstein"}
    @@ (<<76, 73>> :> [Name |-> <<70, 105, 110, 97, 110, 99, 105, 97, 108, 32, 77, 97, 114, 107, 101, 116, 32, 65, 117, 116, 104, 111, 114, 105, 116, 121, 32, 76, 105, 101, 99, 104, 116, 101, 110, 115, 116, 101, 105, 110>>,
        ID |-> <<76, 73, 45, 70, 77, 65>>])
    \* "LV": {ID: "LV-FCMC", Name: "Financial and Capital Markets Commission"}
    @@ (<<76, 86>> :> [Name |-> <<70, 105, 110, 97, 110, 99, 105, 97, 108, 32, 97, 110, 100, 32, 67, 97, 112, 105, 116, 97, 108, 32, 77, 97, 114, 107, 101, 116, 115, 32, 67, 111, 109, 109, 105, 115, 115, 105, 111, 110>>,
        ID |-> <<76, 86, 45, 70, 67, 77, 67>>])
    \* "LT": {ID: "LT-BL", Name: "Bank of Lithuania"}
    @@ (<<76, 84>> :> [Name |-> <<66, 97, 110, 107, 32, 111, 102, 32, 76, 105, 116, 104, 117, 97, 110, 105, 97>>,
        ID |-> <<76, 84, 45, 66, 76>>])
    \* "LU": {ID: "LU-CSSF", Name: "Commission for the Supervision of Financial Sector"}
    @@ (<<76, 85>> :> [Name |-> <<67, 111, 109, 109, 105, 115, 115, 105, 111, 110, 32, 102, 111, 114, 32, 116, 104, 101, 32, 83, 117, 112, 101, 114, 118, 105, 115, 105, 111, 110, 32, 111, 102, 32, 70, 105, 110, 97, 110, 99, 105, 97, 108, 32, 83, 101, 99, 116, 111, 114>>,
        ID |-> <<76, 85, 45, 67, 83, 83, 70>>])
    \* "NO": {ID: "NO-FSA", Name: "The Financial Supervisory Authority of Norway"}
    @@ (<<78, 79>> :> [Name |-> <<84, 104, 101, 32, 70, 105, 110, 97, 110, 99, 105, 97, 108, 32, 83, 117, 112, 101, 114, 118, 105, 115, 111, 114, 121, 32, 65, 117, 116, 104, 111, 114, 105, 116, 121, 32, 111, 102, 32, 78, 111, 114, 119, 97, 121>>,
        ID |-> <<78, 79, 45, 70, 83, 65>>])
    \* "MT": {ID: "MT-MFSA", Name: "Malta Financial Services Authority"}
    @@ (<<77, 84>> :> [Name |-> <<77, 97, 108, 116, 97, 32, 70, 105, 110, 97, 110, 99, 105, 97, 108, 32, 83, 101, 114, 118, 105, 99, 101, 115, 32, 65, 117, 116, 104, 111, 114, 105, 116, 121>>,
        ID |-> <<77, 84, 45, 77, 70, 83, 65>>])
    \* "NL": {ID: "NL-DNB", Name: "The Netherlands Bank"}
    @@ (<<78, 76>> :> [Name |-> <<84, 104, 101, 32, 78, 101, 116, 104, 101, 114, 108, 97, 110, 100, 115, 32, 66, 97, 110, 107>>,
        ID |-> <<78, 76, 45, 68, 78, 66>>])
    \* "PL": {ID: "PL-PFSA", Name: "Polish Financial Supervision Authority"}
    @@ (<<80, 76>> :> [Name |-> <<80, 111, 108, 105, 115, 104, 32, 70, 105, 110, 97, 110, 99, 105, 97, 108, 32, 83, 117, 112, 101, 114, 118, 105, 115, 105, 111, 110, 32, 65, 117, 116, 104, 111, 114, 105, 116, 121>>,
        ID |-> <<80, 76, 45, 80, 70, 83, 65>>])
    \* "PT": {ID: "PT-BP", Name: "Bank of Portugal"}
    @@ (<<80, 84>> :> [Name |-> <<66, 97, 110, 107, 32, 111, 102, 32, 80, 111, 114, 116, 117, 103, 97, 108>>,
        ID |-> <<80, 84, 45, 66, 80>>])
    \* "RO": {ID: "RO-NBR", Name: "National bank of Romania"}
    @@ (<<82, 79>> :> [Name |-> <<78, 97, 116, 105, 111, 110, 97, 108, 32, 98, 97, 110, 107, 32, 111, 102, 32, 82, 111, 109, 97, 110, 105, 97>>,
        ID |-> <<82, 79, 45, 78, 66, 82>>])
    \* "SK": {ID: "SK-NBS", Name: "National Bank of Slovakia"}
    @@ (<<83, 75>> :> [Name |-> <<78, 97, 116, 105, 111, 110, 97, 108, 32, 66, 97, 110, 107, 32, 111, 102, 32, 83, 108, 111, 118, 97, 107, 105, 97>>,
        ID |-> <<83, 75, 45, 78, 66, 83>>])
    \* "SI": {ID: "SI-BS", Name: "Bank of Slovenia"}
    @@ (<<83, 73>> :> [Name |-> <<66, 97, 110, 107, 32, 111, 102, 32, 83, 108, 111, 118, 101, 110, 105, 97>>,
        ID |-> <<83, 73, 45, 66, 83>>])
    \* "ES": {ID: "ES-BE", Name: "Bank of Spain"}
    @@ (<<69, 83>> :> [Name |-> <<66, 97, 110, 107, 32, 111, 102, 32, 83, 112, 97, 105, 110>>,
        ID |-> <<69, 83, 45, 66, 69>>])
    \* "SE": {ID: "SE-FINA", Name: "Swedish Financial Supervision Authority"}
    @@ (<<83, 69>> :> [Name |-> <<83, 119, 101, 100, 105, 115, 104, 32, 70, 105, 110, 97, 110, 99, 105, 97, 108, 32, 83, 117, 112, 101, 114, 118, 105, 115, 105, 111, 110, 32, 65, 117, 116, 104, 111, 114, 105, 116, 121>>,
        ID |-> <<83, 69, 45, 70, 73, 78, 65>>])
    \* "GB": {ID: "GB-FCA", Name: "Financial Conduct Authority"}
    @@ (<<71, 66>> :> [Name |-> <<70, 105, 110, 97, 110, 99, 105, 97, 108, 32, 67, 111, 110, 100, 117, 99, 116, 32, 65, 117, 116, 104, 111, 114, 105, 116, 121>>,
        ID |-> <<71, 66, 45, 70, 67, 65>>])

----------------------------------------------------------------------------
\* encoding/asn1, DER encoding (asn1.Marshal).

TagBitString == 3
TagOctetString == 4
TagOID == 6
TagUTF8String == 12
TagSequence == 16
TagSet == 17
TagNumericString == 18
TagPrintableString == 19
TagT61String == 20
TagIA5String == 22
TagGeneralString == 27

\* The identifier octet of a constructed universal type.
Constructed(tag) == 32 + tag

RECURSIVE Flatten(_)
\* Concatenation of a sequence of octet sequences.
Flatten(ss) == IF ss = <<>> THEN <<>> ELSE Head(ss) \o Flatten(Tail(ss))

RECURSIVE base256(_)
\* Big-endian octets of n > 0, no leading zero (appendLength).
base256(n) == IF n < 256 THEN <<n>> ELSE Append(base256(n \div 256), n % 256)

\* appendTagAndLength, the length octets: short form below 128, else long form.
lengthOctets(n) ==
    IF n < 128 THEN <<n>> ELSE <<128 + Len(base256(n))>> \o base256(n)

\* One DER element: identifier octet, length octets, contents.
TLV(ident, body) == <<ident>> \o lengthOctets(Len(body)) \o body

RECURSIVE base128High(_)
\* The octets of n before the last one, each with the continuation bit.
base128High(n) == IF n = 0 THEN <<>> ELSE Append(base128High(n \div 128), 128 + (n % 128))

\* appendBase128Int: base-128 big-endian, continuation bit on all but the last.
base128(n) == Append(base128High(n \div 128), n % 128)

\* makeObjectIdentifier's guard: at least two arcs, first at most 2, second
\* below 40 when the first is 0 or 1.
oidValid(oid) ==
    /\ Len(oid) >= 2
    /\ oid[1] <= 2
    /\ (oid[1] <= 1 => oid[2] < 40)

\* The contents octets of an OBJECT IDENTIFIER.
oidBody(oid) ==
    base128(oid[1] * 40 + oid[2])
        \o Flatten([i \in 1..(Len(oid) - 2) |-> base128(oid[i + 2])])

\* asn1.Marshal of an ObjectIdentifier (a valid one).
marshalOID(oid) == TLV(TagOID, oidBody(oid))

\* isPrintable(b, rejectAsterisk, rejectAmpersand) of marshal.go.
isPrintable(b) ==
    \/ b \in 97..122 \/ b \in 65..90 \/ b \in 48..57
    \/ b \in 39..41 \/ b \in 43..47
    \/ b = 32 \/ b = 58 \/ b = 61 \/ b = 63

RECURSIVE validUTF8From(_, _)
\* utf8.Valid on the octets of s from index i on.
validUTF8From(s, i) ==
    IF i > Len(s) THEN TRUE
    ELSE LET c == s[i]
             cont(k, lo, hi) == i + k <= Len(s) /\ s[i + k] \in lo..hi
         IN  IF c < 128 THEN validUTF8From(s, i + 1)
             ELSE IF c \in 194..223
                 THEN cont(1, 128, 191) /\ validUTF8From(s, i + 2)
             ELSE IF c \in 224..239
                 THEN /\ cont(1, IF c = 224 THEN 160 ELSE 128,
                                 IF c = 237 THEN 159 ELSE 191)
                      /\ cont(2, 128, 191)
                      /\ validUTF8From(s, i + 3)
             ELSE IF c \in 240..244
                 THEN /\ cont(1, IF c = 240 THEN 144 ELSE 128,
                                 IF c = 244 THEN 143 ELSE 191)
                      /\ cont(2, 128, 191)
                      /\ cont(3, 128, 191)
                      /\ validUTF8From(s, i + 4)
             ELSE FALSE

validUTF8(s) == validUTF8From(s, 1)

allPrintable(s) == \A i \in 1..Len(s) : isPrintable(s[i])

\* marshalField for a string field without a string-type tag: PrintableString
\* when every character is printable, else UTF8String, which must be valid.
stringOK(s) == allPrintable(s) \/ validUTF8(s)

marshalString(s) ==
    TLV(IF allPrintable(s) THEN TagPrintableString ELSE TagUTF8String, s)

\* marshalField for a string field tagged `asn1:"utf8"`.
marshalUTF8String(s) == TLV(TagUTF8String, s)

\* A SEQUENCE (struct or slice) of already encoded elements.
marshalSequence(elems) == TLV(Constructed(TagSequence), Flatten(elems))

----------------------------------------------------------------------------
\* encoding/asn1, DER decoding (asn1.Unmarshal).  Offsets are Go's: octet
\* b[off + 1] is bytes[off].

\* A failed parse.
parseFail == [ok |-> FALSE, val |-> <<>>, off |-> 0]

parseOK(v, off) == [ok |-> TRUE, val |-> v, off |-> off]

RECURSIVE bigEndian(_)
bigEndian(s) == IF s = <<>> THEN 0 ELSE bigEndian(SubSeq(s, 1, Len(s) - 1)) * 256 + s[Len(s)]

\* Sequencing of parse steps: the step after p runs on p's result when p
\* succeeded; a failure ends the parse.
Then(p, K(_)) == IF p.ok THEN K(p) ELSE parseFail

\* The tagAndLength that parseTagAndLength returns.
tagAndLength(ident, len, o) ==
    [ok |-> TRUE, class |-> ident \div 64, isCompound |-> (ident \div 32) % 2 = 1,
     tag |-> ident % 32, length |-> len, off |-> o]

\* parseTagAndLength, the long form of a length: n length octets from
\* offset o on.
longLength(b, ident, n, o) ==
    \* indefinite length (not DER)
    IF n = 0 THEN parseFail
    \* truncated tag or length
    ELSE IF o + n > Len(b) THEN parseFail
    \* length too large / superfluous leading zeros in length
    ELSE IF n > 4 \/ b[o + 1] = 0 \/ (n = 4 /\ b[o + 1] >= 128) THEN parseFail
    \* non-minimal length
    ELSE IF bigEndian(SubSeq(b, o + 1, o + n)) < 128 THEN parseFail
    ELSE tagAndLength(ident, bigEndian(SubSeq(b, o + 1, o + n)), o + n)

\* parseTagAndLength.  A tag number of 31 or more (several identifier octets)
\* matches no field of the structures decoded here and is reported as a
\* failure at once.
parseTagAndLength(b, off) ==
    IF off + 1 >= Len(b) THEN parseFail
    ELSE IF b[off + 1] % 32 = 31 THEN parseFail
    ELSE IF b[off + 2] < 128 THEN tagAndLength(b[off + 1], b[off + 2], off + 2)
    ELSE longLength(b, b[off + 1], b[off + 2] % 128, off + 2)

\* The string types parseField lets stand for one another in a string field.
stringTags ==
    {TagPrintableString, TagIA5String, TagGeneralString, TagT61String,
     TagUTF8String, TagNumericString}

\* parseField after parseTagAndLength, for a universal type: the element must
\* carry the expected tag and lie within b.  val is the contents, off the
\* offset after the element.
checkHeader(b, t, expectedTag, compound) ==
    IF t.class # 0 \/ t.tag # expectedTag \/ t.isCompound # compound
    THEN parseFail                                      \* tags don't match
    ELSE IF t.off + t.length > Len(b) THEN parseFail    \* data truncated
    ELSE parseOK(SubSeq(b, t.off + 1, t.off + t.length), t.off + t.length)

\* parseField up to the contents of a required field of a universal type.
fieldHeader(b, off, expectedTag, compound) ==
    IF off = Len(b) THEN parseFail                      \* sequence truncated
    ELSE Then(parseTagAndLength(b, off), LAMBDA t :
         checkHeader(b, t, expectedTag, compound))

\* parseBase128Int: val is the integer, off the offset after it.
RECURSIVE parseBase128Int(_, _, _, _)
parseBase128Int(b, off, shifted, acc) ==
    IF off >= Len(b) THEN parseFail                     \* truncated base 128 integer
    ELSE IF shifted = 5 THEN parseFail                  \* base 128 integer too large
    ELSE IF b[off + 1] < 128 THEN parseOK(acc * 128 + b[off + 1], off + 1)
    ELSE parseBase128Int(b, off + 1, shifted + 1, acc * 128 + (b[off + 1] % 128))

RECURSIVE parseArcs(_, _, _)
\* The arcs after the first two of an object identifier's contents.
parseArcs(b, off, arcs) ==
    IF off >= Len(b) THEN parseOK(arcs, off)
    ELSE Then(parseBase128Int(b, off, 0, 0), LAMBDA v :
         parseArcs(b, v.off, Append(arcs, v.val)))

\* The first two arcs, from the first integer of the contents.
firstArcs(v) == IF v < 80 THEN <<v \div 40, v % 40>> ELSE <<2, v - 80>>

\* parseObjectIdentifier, from the contents octets.
parseObjectIdentifier(b) ==
    IF Len(b) = 0 THEN parseFail                        \* zero length OBJECT IDENTIFIER
    ELSE Then(parseBase128Int(b, 0, 0, 0), LAMBDA v :
         parseArcs(b, v.off, firstArcs(v.val)))

\* parseField into an asn1.ObjectIdentifier.
parseOIDField(b, off) ==
    Then(fieldHeader(b, off, TagOID, FALSE), LAMBDA h :
    Then(parseObjectIdentifier(h.val), LAMBDA v :
    parseOK(v.val, h.off)))

\* isPrintable(b, allowAsterisk, allowAmpersand) of asn1.go.
isPrintableLax(b) == isPrintable(b) \/ b = 42 \/ b = 38

\* The contents check of each string type (parsePrintableString,
\* parseIA5String, parseUTF8String, parseNumericString; T61String and
\* GeneralString are taken as they are).
stringContentsOK(tag, s) ==
    CASE tag = TagPrintableString -> \A i \in 1..Len(s) : isPrintableLax(s[i])
      [] tag = TagIA5String -> \A i \in 1..Len(s) : s[i] < 128
      [] tag = TagUTF8String -> validUTF8(s)
      [] tag = TagNumericString -> \A i \in 1..Len(s) : s[i] \in 48..57 \/ s[i] = 32
      [] OTHER -> TRUE

\* The tag a string field expects: a universal string type found on the wire
\* replaces the PrintableString that a Go string stands for.
expectedStringTag(t) ==
    IF t.class = 0 /\ t.tag \in stringTags THEN t.tag ELSE TagPrintableString

\* parseField into a string (or a named string type such as Role), with or
\* without the utf8 tag: every universal string type is accepted.
parseStringField(b, off) ==
    IF off = Len(b) THEN parseFail
    ELSE Then(parseTagAndLength(b, off), LAMBDA t :
         Then(checkHeader(b, t, expectedStringTag(t), FALSE), LAMBDA h :
         IF stringContentsOK(expectedStringTag(t), h.val)
         THEN parseOK(h.val, h.off) ELSE parseFail))

RECURSIVE parseSequenceOfOID(_, _, _)
\* parseSequenceOf for []asn1.ObjectIdentifier, from the contents octets.
parseSequenceOfOID(b, off, acc) ==
    IF off >= Len(b) THEN parseOK(acc, off)
    ELSE Then(parseOIDField(b, off), LAMBDA e :
         parseSequenceOfOID(b, e.off, Append(acc, e.val)))

----------------------------------------------------------------------------
\* Package qcstatements: the qualified statement and its codec.

\* asn1.ObjectIdentifier{0, 4, 0, 1862, 1, 6} of qcType.OID
oidQcType == <<0, 4, 0, 1862, 1, 6>>
\* asn1.ObjectIdentifier{0, 4, 0, 19495, 2} of qcStatement.OID
oidQcStatement == <<0, 4, 0, 19495, 2>>

\* asn1.ObjectIdentifier([]int{0, 4, 0, 19495, 1, roleMap[rv]})
roleOID(rv) == <<0, 4, 0, 19495, 1, roleMapAt(rv)>>

\* `_, ok := roleMap[rv]` of Serialize
roleKnown(rv) == rv \in DOMAIN roleMap

\* A faulty variant of firstUnknown, against which C2 is tested: only the
\* first role of the list is looked up.
firstUnknownHeadOnly(roles) ==
    IF Len(roles) > 0 /\ ~roleKnown(roles[1]) THEN 1 ELSE 0

\* The index of the first role of the list that the loop of Serialize
\* rejects, 0 when it rejects none.
firstUnknown(roles) ==
    LET bad == {i \in 1..Len(roles) : ~roleKnown(roles[i])}
    IN  IF bad = {} THEN 0 ELSE CHOOSE i \in bad : \A j \in bad : i <= j

\* The slice r that the loop of Serialize fills: one role{OID, Role} per
\* input role, at the same index.
roleRecords(roles) ==
    [i \in 1..Len(roles) |-> [OID |-> roleOID(roles[i]), Role |-> roles[i]]]

\* asn1.Marshal of one role struct: SEQUENCE {OID, string}.
marshalRole(r) == marshalSequence(<<marshalOID(r.OID), marshalString(r.Role)>>)

\* A faulty variant of marshalRoot, against which C10 is tested: the
\* authority id is written before the authority name.
marshalRootIdFirst(r, caName, caID, t) ==
    marshalSequence(<<
        marshalSequence(<<
            marshalOID(oidQcType),
            marshalSequence(<<marshalOID(t)>>) >>),
        marshalSequence(<<
            marshalOID(oidQcStatement),
            marshalSequence(<<
                marshalSequence([i \in 1..Len(r) |-> marshalRole(r[i])]),
                marshalUTF8String(caID),
                marshalUTF8String(caName) >>) >>) >>)

\* asn1.Marshal of the root struct.
marshalRoot(r, caName, caID, t) ==
    marshalSequence(<<
        marshalSequence(<<                                  \* qcType
            marshalOID(oidQcType),
            marshalSequence(<<marshalOID(t)>>) >>),        \* Detail
        marshalSequence(<<                                  \* qcStatement
            marshalOID(oidQcStatement),
            marshalSequence(<<                              \* rolesInfo
                marshalSequence([i \in 1..Len(r) |-> marshalRole(r[i])]),
                marshalUTF8String(caName),
                marshalUTF8String(caID) >>) >>) >>)

\* Whether asn1.Marshal of the root struct succeeds: every object identifier
\* and every untagged string must be encodable.
marshalRootOK(r, t) ==
    /\ oidValid(t)
    /\ \A i \in 1..Len(r) : oidValid(r[i].OID) /\ stringOK(r[i].Role)

\* A faulty variant of Serialize, against which C23 is tested: the type
\* written is that of the website-authentication flavor, whatever t is.
SerializeFixedType(roles, authority, t) ==
    IF firstUnknown(roles) # 0
    THEN [bytes |-> <<>>, err |-> "Unknown role"]
    ELSE IF ~marshalRootOK(roleRecords(roles), t)
    THEN [bytes |-> <<>>, err |-> "Failed to marshal eIDAS"]
    ELSE [bytes |-> marshalRoot(roleRecords(roles), authority.Name,
                                authority.ID, QWACType),
          err |-> "nil"]

\* qcstatements.Serialize
Serialize(roles, authority, t) ==
    IF firstUnknown(roles) # 0
    THEN [bytes |-> <<>>, err |-> "Unknown role"]
    ELSE LET r == roleRecords(roles)
         IN  IF ~marshalRootOK(r, t)
             THEN [bytes |-> <<>>, err |-> "Failed to marshal eIDAS"]
             ELSE [bytes |-> marshalRoot(r, authority.Name, authority.ID, t),
                   err |-> "nil"]

\* A faulty variant of parseRole, against which C11 is tested: a record is
\* refused unless its string is a token of roleMap under its own code.
parseRoleStrict(b, off) ==
    Then(fieldHeader(b, off, TagSequence, TRUE), LAMBDA h :
    Then(parseOIDField(h.val, 0), LAMBDA o :
    Then(parseStringField(h.val, o.off), LAMBDA s :
    IF roleKnown(s.val) /\ o.val = roleOID(s.val)
    THEN parseOK([OID |-> o.val, Role |-> s.val], h.off)
    ELSE parseFail)))

\* parseField into a role struct: SEQUENCE {OID, string}; octets after the
\* last field of a struct are allowed.
parseRole(b, off) ==
    Then(fieldHeader(b, off, TagSequence, TRUE), LAMBDA h :
    Then(parseOIDField(h.val, 0), LAMBDA o :
    Then(parseStringField(h.val, o.off), LAMBDA s :
    parseOK([OID |-> o.val, Role |-> s.val], h.off))))

RECURSIVE parseSequenceOfRole(_, _, _)
\* parseSequenceOf for []role, from the contents octets.
parseSequenceOfRole(b, off, acc) ==
    IF off >= Len(b) THEN parseOK(acc, off)
    ELSE Then(parseRole(b, off), LAMBDA e :
         parseSequenceOfRole(b, e.off, Append(acc, e.val)))

\* parseField into a qcType struct.
parseQcType(b, off) ==
    Then(fieldHeader(b, off, TagSequence, TRUE), LAMBDA h :
    Then(parseOIDField(h.val, 0), LAMBDA o :
    Then(fieldHeader(h.val, o.off, TagSequence, TRUE), LAMBDA d :
    Then(parseSequenceOfOID(d.val, 0, <<>>), LAMBDA l :
    parseOK([OID |-> o.val, Detail |-> l.val], h.off)))))

\* parseField into a rolesInfo struct.
parseRolesInfo(b, off) ==
    Then(fieldHeader(b, off, TagSequence, TRUE), LAMBDA h :
    Then(fieldHeader(h.val, 0, TagSequence, TRUE), LAMBDA rs :
    Then(parseSequenceOfRole(rs.val, 0, <<>>), LAMBDA l :
    Then(parseStringField(h.val, rs.off), LAMBDA n :
    Then(parseStringField(h.val, n.off), LAMBDA i :
    parseOK([Roles |-> l.val, CAName |-> n.val, CAID |-> i.val], h.off))))))

\* parseField into a qcStatement struct.
parseQcStatement(b, off) ==
    Then(fieldHeader(b, off, TagSequence, TRUE), LAMBDA h :
    Then(parseOIDField(h.val, 0), LAMBDA o :
    Then(parseRolesInfo(h.val, o.off), LAMBDA ri :
    parseOK([OID |-> o.val, RolesInfo |-> ri.val], h.off))))

\* asn1.Unmarshal(data, &root): octets after the outer element are returned as
\* the rest, which Extract drops.
unmarshalRoot(data) ==
    Then(fieldHeader(data, 0, TagSequence, TRUE), LAMBDA h :
    Then(parseQcType(h.val, 0), LAMBDA qt :
    Then(parseQcStatement(h.val, qt.off), LAMBDA qs :
    parseOK([QcType |-> qt.val, QcStatement |-> qs.val], h.off))))

\* A faulty variant of roleStrings, against which C1 is tested: the roles
\* are returned last first.
roleStringsReversed(rs) == [i \in 1..Len(rs) |-> rs[Len(rs) + 1 - i].Role]

\* The loop of Extract: the role string of each decoded role record, in
\* their order.
roleStrings(rs) == [i \in 1..Len(rs) |-> rs[i].Role]

\* What Extract returns for the outcome of the Unmarshal.
extractResult(root) ==
    IF ~root.ok
    THEN [roles |-> <<>>, name |-> <<>>, id |-> <<>>,
          err |-> "failed to decode eIDAS"]
    ELSE [roles |-> roleStrings(root.val.QcStatement.RolesInfo.Roles),
          name |-> root.val.QcStatement.RolesInfo.CAName,
          id |-> root.val.QcStatement.RolesInfo.CAID, err |-> "nil"]

\* qcstatements.Extract
Extract(data) == extractResult(unmarshalRoot(data))

\* A faulty variant of CompetentAuthorityForCountryCode, against which C4 is
\* tested: the code is looked up whatever the case of its letters.
lookupAnyCase(m, code) ==
    LET upper == [i \in 1..Len(code) |->
                    IF code[i] \in 97..122 THEN code[i] - 32 ELSE code[i]]
    IN  IF upper \in DOMAIN m
        THEN [ptr |-> {upper}, err |-> "nil"]
        ELSE [ptr |-> {}, err |-> "unknown country code"]

\* qcstatements.CompetentAuthorityForCountryCode, on the table m: ptr is the
\* pointer returned (the entry of the table it points to, none when nil).
CompetentAuthorityForCountryCode(m, code) ==
    IF code \in DOMAIN m
    THEN [ptr |-> {code}, err |-> "nil"]
    ELSE [ptr |-> {}, err |-> "unknown country code"]

----------------------------------------------------------------------------
\* Package eidas, the earlier codec (src/eidas.go and its revision with the
\* role check): the roles are a flat list of asn1.RawValue, an object
\* identifier and a string per role, inside a struct of their own.

\* asn1.Marshal of Root: each RawValue is written as its FullBytes.  The
\* certificate type is fixed to the website-authentication identifier.
eidasMarshalRoot(raw, caName, caID) ==
    marshalSequence(<<
        marshalSequence(<<                                  \* QcType
            marshalOID(oidQcType),
            marshalSequence(<<marshalOID(<<0, 4, 0, 1862, 1, 6, 3>>)>>) >>),
        marshalSequence(<<                                  \* QcStatement
            marshalOID(oidQcStatement),
            marshalSequence(<<                              \* RolesInfo
                marshalSequence(<<marshalSequence(raw)>>),  \* Roles{Roles}
                marshalUTF8String(caName),
                marshalUTF8String(caID) >>) >>) >>)

\* The slice r of RawValues the loop fills: r[i*2] the object identifier,
\* r[i*2+1] the string of role i.
eidasRawRoles(roles) ==
    [k \in 1..(2 * Len(roles)) |->
        IF k % 2 = 1 THEN marshalOID(roleOID(roles[(k + 1) \div 2]))
        ELSE marshalString(roles[k \div 2])]

\* Serialize of src/eidas.go: roleMap[rv] is used without a check of rv.
eidasSerialize(roles, caName, caID) ==
    IF \E i \in 1..Len(roles) : ~stringOK(roles[i])
    THEN [bytes |-> <<>>, err |-> "Failed to encode string for role"]
    ELSE [bytes |-> eidasMarshalRoot(eidasRawRoles(roles), caName, caID),
          err |-> "nil"]

\* Serialize of the later revision of package eidas: as above behind the
\* check `if _, ok := roleMap[rv]; !ok`.
eidasSerializeChecked(roles, caName, caID) ==
    IF firstUnknown(roles) # 0
    THEN [bytes |-> <<>>, err |-> "Unknown role"]
    ELSE eidasSerialize(roles, caName, caID)

----------------------------------------------------------------------------
\* Package eidas, csr.go: extension selection, extensions, subject.

\* x509.KeyUsage values
KeyUsageDigitalSignature == 1
KeyUsageContentCommitment == 2
KeyUsageDecipherOnly == 256

TLSWWWServerAuthUsage == <<1, 3, 6, 1, 5, 5, 7, 3, 1>>
TLSWWWClientAuthUsage == <<1, 3, 6, 1, 5, 5, 7, 3, 2>>
QCStatementsExt == <<1, 3, 6, 1, 5, 5, 7, 1, 3>>
oidKeyUsage == <<2, 5, 29, 15>>
oidExtendedKeyUsage == <<2, 5, 29, 37>>
oidSubjectKeyIdentifier == <<2, 5, 29, 14>>
oidCountryCode == <<2, 5, 4, 6>>
oidOrganizationName == <<2, 5, 4, 10>>
oidOrganizationID == <<2, 5, 4, 97>>
oidCommonName == <<2, 5, 4, 3>>

\* A faulty variant of keyUsageForType, against which C5 is tested: the
\* usages of the two flavors are exchanged.
keyUsageForTypeSwapped(t) ==
    IF t = QSEALType
    THEN [usages |-> <<KeyUsageDigitalSignature>>, err |-> "nil"]
    ELSE IF t = QWACType
    THEN [usages |-> <<KeyUsageDigitalSignature, KeyUsageContentCommitment>>,
          err |-> "nil"]
    ELSE [usages |-> <<>>, err |-> "unknown QC type"]

\* keyUsageForType
keyUsageForType(t) ==
    IF t = QWACType
    THEN [usages |-> <<KeyUsageDigitalSignature>>, err |-> "nil"]
    ELSE IF t = QSEALType
    THEN [usages |-> <<KeyUsageDigitalSignature, KeyUsageContentCommitment>>,
          err |-> "nil"]
    ELSE [usages |-> <<>>, err |-> "unknown QC type"]

\* A faulty variant of extendedKeyUsageForType, against which C6 is tested:
\* the seal flavor is refused.
extendedKeyUsageForTypeNoSeal(t) ==
    IF t = QWACType
    THEN [oids |-> <<TLSWWWServerAuthUsage, TLSWWWClientAuthUsage>>, err |-> "nil"]
    ELSE [oids |-> <<>>, err |-> "unknown QC type"]

\* extendedKeyUsageForType
extendedKeyUsageForType(t) ==
    IF t = QWACType
    THEN [oids |-> <<TLSWWWServerAuthUsage, TLSWWWClientAuthUsage>>, err |-> "nil"]
    ELSE IF t = QSEALType
    THEN [oids |-> <<>>, err |-> "nil"]
    ELSE [oids |-> <<>>, err |-> "unknown QC type"]

RECURSIVE pow2(_)
pow2(n) == IF n = 0 THEN 1 ELSE 2 * pow2(n - 1)

\* A faulty variant of usageMask, against which C19 is tested: the shift is
\* one short.
usageMaskOneShort(usage) == IF usage <= 7 THEN pow2(7 - usage) ELSE 0

\* uint16(1) << (8 - uint(usage)): the shift count wraps around for a usage
\* above 8 and the shift then yields 0.
usageMask(usage) == IF usage <= 8 THEN pow2(8 - usage) ELSE 0

\* The bits of x, the uint16 that KeyUsageExtension ors the masks into.
usageBits(usages) ==
    {k \in 0..15 : \E i \in 1..Len(usages) : usageMask(usages[i]) = pow2(k)}

RECURSIVE sumPow2(_)
sumPow2(S) == IF S = {} THEN 0 ELSE LET m == CHOOSE e \in S : TRUE
                                   IN  pow2(m) + sumPow2(S \ {m})

\* asn1.Marshal of a BitString: the count of unused bits, then the octets.
marshalBitString(bytes, bitLength) ==
    TLV(TagBitString, <<(8 - (bitLength % 8)) % 8>> \o bytes)

\* KeyUsageExtension
KeyUsageExtension(usages) ==
    LET x == sumPow2(usageBits(usages))
        b == <<x % 256, x \div 256>>        \* binary.LittleEndian.PutUint16
    IN  [Id |-> oidKeyUsage, Critical |-> TRUE,
         Value |-> marshalBitString(b, KeyUsageDecipherOnly)]

\* extendedKeyUsageExtension
extendedKeyUsageExtension(usages) ==
    [Id |-> oidExtendedKeyUsage, Critical |-> FALSE,
     Value |-> marshalSequence([i \in 1..Len(usages) |-> marshalOID(usages[i])])]

\* Length of a SHA-1 digest in octets.
Sha1Size == 20

\* sha1.Sum(x509.MarshalPKCS1PublicKey(&key)): a digest is a function of the
\* key alone; the digest of key k is modelled as 20 octets of value k.
sha1OfPublicKey(k) == [i \in 1..Sha1Size |-> k]

\* A faulty variant of subjectKeyIdentifier, against which C14 is tested:
\* the extension is marked critical.
subjectKeyIdentifierCritical(k) ==
    [Id |-> oidSubjectKeyIdentifier, Critical |-> TRUE,
     Value |-> TLV(TagOctetString, sha1OfPublicKey(k))]

\* subjectKeyIdentifier
subjectKeyIdentifier(k) ==
    [Id |-> oidSubjectKeyIdentifier, Critical |-> FALSE,
     Value |-> TLV(TagOctetString, sha1OfPublicKey(k))]

\* A faulty variant of qcStatementsExtension, against which C15 is tested:
\* the statement is wrapped in an OCTET STRING.
qcStatementsExtensionWrapped(data) ==
    [Id |-> QCStatementsExt, Critical |-> FALSE,
     Value |-> TLV(TagOctetString, data)]

\* qcStatementsExtension
qcStatementsExtension(data) ==
    [Id |-> QCStatementsExt, Critical |-> FALSE, Value |-> data]

\* A faulty variant of assembleExtensions, against which C7 is tested: the
\* extended-key-usage extension is appended whatever the flavor.
assembleExtensionsAlways(ku, eku, k, data) ==
    <<KeyUsageExtension(ku), extendedKeyUsageExtension(eku),
      subjectKeyIdentifier(k), qcStatementsExtension(data)>>

\* The extension list GenerateCSR assembles.
assembleExtensions(ku, eku, k, data) ==
    <<KeyUsageExtension(ku)>>
        \o (IF Len(eku) # 0 THEN <<extendedKeyUsageExtension(eku)>> ELSE <<>>)
        \o <<subjectKeyIdentifier(k), qcStatementsExtension(data)>>

\* A faulty variant of subjectRDNs, against which C8 is tested: the common
\* name and the organization identifier land under each other's type.
subjectRDNsSwapped(countryCode, orgName, commonName, orgID) ==
    << <<[Type |-> oidCountryCode, Value |-> countryCode]>>,
       <<[Type |-> oidOrganizationName, Value |-> orgName]>>,
       <<[Type |-> oidOrganizationID, Value |-> commonName]>>,
       <<[Type |-> oidCommonName, Value |-> orgID]>> >>

\* pkix.Name{ExtraNames: ...}.ToRDNSequence() of buildSubject: with no other
\* field of the Name set, one single-attribute RDN per extra name, in the
\* order of the literal.  Note the parameter order of buildSubject.
subjectRDNs(countryCode, orgName, commonName, orgID) ==
    << <<[Type |-> oidCountryCode, Value |-> countryCode]>>,
       <<[Type |-> oidOrganizationName, Value |-> orgName]>>,
       <<[Type |-> oidOrganizationID, Value |-> orgID]>>,
       <<[Type |-> oidCommonName, Value |-> commonName]>> >>

\* asn1.Marshal of an RDNSequence: SEQUENCE OF SET OF SEQUENCE {type, value};
\* each RDN here holds one attribute, so the order within a SET is moot.
marshalRDNSequence(rdns) ==
    marshalSequence([i \in 1..Len(rdns) |->
        TLV(Constructed(TagSet),
            Flatten([j \in 1..Len(rdns[i]) |->
                marshalSequence(<<marshalOID(rdns[i][j].Type),
                                  marshalString(rdns[i][j].Value)>>)]))])

\* buildSubject
buildSubject(countryCode, orgName, commonName, orgID) ==
    LET rdns == subjectRDNs(countryCode, orgName, commonName, orgID)
    IN  IF \E i \in 1..Len(rdns) : ~stringOK(rdns[i][1].Value)
        THEN [bytes |-> <<>>, err |-> "asn1: string not valid UTF-8"]
        ELSE [bytes |-> marshalRDNSequence(rdns), err |-> "nil"]

----------------------------------------------------------------------------
\* The inputs the callers draw from.

\* "PSP_XX", a role token outside the closed set
RoleUnknown == <<80, 83, 80, 95, 88, 88>>

RoleInputs ==
    {RoleAccountServicing, RolePaymentInitiation, RoleAccountInformation,
     RolePaymentInstruments, RoleUnknown}

\* All role lists of at most MaxRoles roles.
RoleListInputs == UNION {[1..n -> RoleInputs] : n \in 0..MaxRoles}

\* "GB", "DE", "ZZ", "gb", ""
GB == <<71, 66>>
DE == <<68, 69>>
ZZ == <<90, 90>>
gbLower == <<103, 98>>
emptyString == <<>>

\* The country codes passed to the lookup: every key of the table, an
\* unsupported code, a lower-case spelling and the empty string.
CountryCodeInputs == DOMAIN caMapInit \cup {ZZ, gbLower, emptyString}

\* The country codes passed to GenerateCSR.
CSRCountryCodeInputs == {GB, DE, ZZ}

\* The certificate types passed in: the two flavors, an object identifier
\* that is neither (the base of both), and the nil identifier, which
\* cannot be encoded.
FlavorInputs == {QWACType, QSEALType, oidQcType, <<>>}

\* (orgName, orgID, commonName) passed to GenerateCSR:
\* "Foo Org", "Foo Org ID", "Foo Name";
\* "Café", "PSDGB-FCA-123456", "abcdef";
\* a name that is not valid UTF-8, "ID", "cn";
\* "Foo Org", "ID_1" (the underscore is no PrintableString character), "cn".
SubjectInputs ==
    { << <<70, 111, 111, 32, 79, 114, 103>>,
         <<70, 111, 111, 32, 79, 114, 103, 32, 73, 68>>,
         <<70, 111, 111, 32, 78, 97, 109, 101>> >>,
      << <<67, 97, 102, 195, 169>>,
         <<80, 83, 68, 71, 66, 45, 70, 67, 65, 45, 49, 50, 51, 52, 53, 54>>,
         <<97, 98, 99, 100, 101, 102>> >>,
      << <<255, 254>>, <<73, 68>>, <<99, 110>> >>,
      << <<70, 111, 111, 32, 79, 114, 103>>, <<73, 68, 95, 49>>, <<99, 110>> >> }

\* The values of x509.KeyUsage: KeyUsageDigitalSignature = 1 << 0 up to
\* KeyUsageDecipherOnly = 1 << 8.
KeyUsageInputs == {pow2(k) : k \in 0..8}

\* The usage lists passed to KeyUsageExtension: none, one usage, two usages.
KeyUsageListInputs == UNION {[1..n -> KeyUsageInputs] : n \in 0..2}

\* The keys rsa.GenerateKey may return.
Keys == {1, 2}

\* The first example payload of the wire format: roles PSP_PI and PSP_AI.
Payload1 ==
    << 48, 108, 48, 19, 6, 6, 4, 0, 142, 70, 1, 6, 48, 9, 6, 7,
       4, 0, 142, 70, 1, 6, 3, 48, 85, 6, 6, 4, 0, 129, 152, 39,
       2, 48, 75, 48, 36, 48, 34, 6, 7, 4, 0, 129, 152, 39, 1, 2,
       12, 6, 80, 83, 80, 95, 80, 73, 6, 7, 4, 0, 129, 152, 39, 1,
       3, 12, 6, 80, 83, 80, 95, 65, 73, 12, 27, 70, 105, 110, 97, 110,
       99, 105, 97, 108, 32, 67, 111, 110, 100, 117, 99, 116, 32, 65, 117, 116,
       104, 111, 114, 105, 116, 121, 12, 6, 71, 66, 45, 70, 67, 65 >>

\* The second example payload: roles PSP_AS and PSP_IC.
Payload2 ==
    << 48, 108, 48, 19, 6, 6, 4, 0, 142, 70, 1, 6, 48, 9, 6, 7,
       4, 0, 142, 70, 1, 6, 3, 48, 85, 6, 6, 4, 0, 129, 152, 39,
       2, 48, 75, 48, 36, 48, 34, 6, 7, 4, 0, 129, 152, 39, 1, 1,
       12, 6, 80, 83, 80, 95, 65, 83, 6, 7, 4, 0, 129, 152, 39, 1,
       4, 12, 6, 80, 83, 80, 95, 73, 67, 12, 27, 70, 105, 110, 97, 110,
       99, 105, 97, 108, 32, 67, 111, 110, 100, 117, 99, 116, 32, 65, 117, 116,
       104, 111, 114, 105, 116, 121, 12, 6, 71, 66, 45, 70, 67, 65 >>

PayloadInputs == {Payload1, Payload2}

\* Role records as an encoder other than Serialize may write them: the
\* pair of the catalog, a valid token under the code of another role, a
\* valid token under code 0, a token outside the closed set under a code
\* of the catalog, and one under a code of no role.
ForeignRecords ==
    << [OID |-> roleOID(RoleAccountServicing), Role |-> RoleAccountServicing],
       [OID |-> roleOID(RolePaymentInitiation), Role |-> RoleAccountServicing],
       [OID |-> roleOID(RoleUnknown), Role |-> RoleAccountInformation],
       [OID |-> roleOID(RolePaymentInstruments), Role |-> RoleUnknown],
       [OID |-> <<0, 4, 0, 19495, 1, 9>>, Role |-> RoleUnknown] >>

\* The ways in which a payload passed to Extract departs from the layout
\* of root.
MalformedKinds ==
    {"truncated", "empty", "missing id", "wrong type", "extra pair in role",
     "extra element in rolesInfo", "extra element in root", "trailing bytes",
     "invalid UTF-8"}

\* The payload of each kind: the encoding of role PSP_AI, the authority
\* (caName, caID) and the QWAC type, with one departure.
MalformedPayload(kind, caName, caID) ==
    LET oid == marshalOID(roleOID(RoleAccountInformation))
        str == marshalString(RoleAccountInformation)
        type == marshalSequence(<<marshalOID(oidQcType),
                                  marshalSequence(<<marshalOID(QWACType)>>)>>)
        rec == IF kind = "extra pair in role"
               THEN marshalSequence(<<oid, str, oid, str>>)
               ELSE marshalSequence(<<oid, str>>)
        name == CASE kind = "wrong type" -> TLV(TagOctetString, caName)
                  [] kind = "invalid UTF-8" -> TLV(TagUTF8String, <<255, 254>>)
                  [] OTHER -> marshalUTF8String(caName)
        id == marshalUTF8String(caID)
        info == CASE kind = "missing id" ->
                        marshalSequence(<<marshalSequence(<<rec>>), name>>)
                  [] kind = "extra element in rolesInfo" ->
                        marshalSequence(<<marshalSequence(<<rec>>), name, id, id>>)
                  [] OTHER -> marshalSequence(<<marshalSequence(<<rec>>), name, id>>)
        stmt == marshalSequence(<<marshalOID(oidQcStatement), info>>)
        all == IF kind = "extra element in root"
               THEN marshalSequence(<<type, stmt, stmt>>)
               ELSE marshalSequence(<<type, stmt>>)
    IN  CASE kind = "truncated" -> SubSeq(all, 1, Len(all) - 1)
          [] kind = "empty" -> <<>>
          [] kind = "trailing bytes" -> all \o <<0>>
          [] OTHER -> all

\* The role lists of the payloads of another encoder passed to Extract.
ForeignRecordLists ==
    {<<>>} \cup {<<ForeignRecords[i]>> : i \in DOMAIN ForeignRecords}
        \cup {<<ForeignRecords[1], ForeignRecords[1]>>,
              <<ForeignRecords[2], ForeignRecords[4]>>,
              <<ForeignRecords[4], ForeignRecords[1]>>}

----------------------------------------------------------------------------
\* The state machine: a caller that invokes the operations one at a time.
\* pc is "idle" before a call, "done" after its return, when the caller holds
\* what the call returned, and a step of GenerateCSR while that one runs.

noCA == [Name |-> <<>>, ID |-> <<>>]

noArgs ==
    [roles |-> <<>>, ca |-> noCA, t |-> <<>>, code |-> <<>>, data |-> <<>>,
     from |-> "", orgName |-> <<>>, orgID |-> <<>>, commonName |-> <<>>,
     records |-> <<>>, kind |-> "", usages |-> <<>>]

noCSR == [RawSubject |-> <<>>, ExtraExtensions |-> <<>>, key |-> 0]

noRet ==
    [err |-> "nil", bytes |-> <<>>, roles |-> <<>>, name |-> <<>>, id |-> <<>>,
     ptr |-> {}, usages |-> <<>>, oids |-> <<>>, csr |-> noCSR, key |-> 0]

noLocals ==
    /\ key = 0
    /\ ca = {}
    /\ qc = <<>>
    /\ keyUsage = <<>>
    /\ extendedKeyUsage = <<>>
    /\ extensions = <<>>
    /\ subject = <<>>
    /\ signerCalls = 0

\* A file that does not exist, and a file just created or truncated.
noFile == [exists |-> FALSE, blocks |-> <<>>, torn |-> FALSE]
emptyFile == [exists |-> TRUE, blocks |-> <<>>, torn |-> FALSE]

\* The command-line tool before it is run.
noCLI ==
    [pc |-> "idle", countryCode |-> <<>>, orgName |-> <<>>, orgID |-> <<>>,
     commonName |-> <<>>, roles |-> <<>>, qcType |-> <<>>, outCSR |-> <<>>,
     outKey |-> <<>>, t |-> <<>>, r |-> <<>>, d |-> noCSR, key |-> 0,
     err |-> "nil", status |-> -1, files |-> <<>>, ops |-> <<>>]

\* The second caller before a call.
noPeer == [pc |-> "idle", op |-> "none", args |-> noArgs, ret |-> noRet]

Init ==
    /\ caMap = caMapInit
    /\ peer = noPeer
    /\ cli = noCLI
    /\ pc = "idle"
    /\ op = "none"
    /\ args = noArgs
    /\ ret = noRet
    /\ noLocals

\* The value of ret after each kind of call.
retOfLookup(r) == [noRet EXCEPT !.ptr = r.ptr, !.err = r.err]
retOfSerialize(r) == [noRet EXCEPT !.bytes = r.bytes, !.err = r.err]
retOfExtract(r) ==
    [noRet EXCEPT !.roles = r.roles, !.name = r.name, !.id = r.id, !.err = r.err]
retOfKeyUsage(r) == [noRet EXCEPT !.usages = r.usages, !.err = r.err]
retOfExtendedKeyUsage(r) == [noRet EXCEPT !.oids = r.oids, !.err = r.err]

\* A call of CompetentAuthorityForCountryCode.
CallLookup ==
    /\ pc = "idle"
    /\ \E code \in CountryCodeInputs :
        /\ op' = "CompetentAuthorityForCountryCode"
        /\ args' = [noArgs EXCEPT !.code = code]
        /\ ret' = retOfLookup(CompetentAuthorityForCountryCode(caMap, code))
    /\ pc' = "done"
    /\ UNCHANGED <<cli, peer, caMap, locals>>

\* A call of qcstatements.Serialize with a registered authority.
CallSerialize ==
    /\ pc = "idle"
    /\ \E roles \in RoleListInputs, code \in DOMAIN caMap, t \in FlavorInputs :
        /\ op' = "Serialize"
        /\ args' = [noArgs EXCEPT !.roles = roles, !.code = code,
                                  !.ca = caMap[code], !.t = t]
        /\ ret' = retOfSerialize(Serialize(roles, caMap[code], t))
    /\ pc' = "done"
    /\ UNCHANGED <<cli, peer, caMap, locals>>

\* A call of qcstatements.Extract on what the Serialize before it returned:
\* args keeps the arguments of that Serialize.
CallExtractOfSerialize ==
    /\ pc = "done"
    /\ op = "Serialize"
    /\ ret.err = "nil"
    /\ op' = "Extract"
    /\ args' = [args EXCEPT !.data = ret.bytes, !.from = "Serialize"]
    /\ ret' = retOfExtract(Extract(ret.bytes))
    /\ pc' = "done"
    /\ UNCHANGED <<cli, peer, caMap, locals>>

\* A call of qcstatements.Extract on an example payload.
CallExtractOfPayload ==
    /\ pc = "idle"
    /\ \E data \in PayloadInputs :
        /\ op' = "Extract"
        /\ args' = [noArgs EXCEPT !.data = data, !.from = "payload"]
        /\ ret' = retOfExtract(Extract(data))
    /\ pc' = "done"
    /\ UNCHANGED <<cli, peer, caMap, locals>>

\* A call of qcstatements.Extract on a payload in the layout of root that
\* an encoder other than Serialize wrote: args keeps what it was made of.
CallExtractOfForeign ==
    /\ pc = "idle"
    /\ \E rs \in ForeignRecordLists, t \in {QWACType, QSEALType} :
        /\ op' = "Extract"
        /\ args' = [noArgs EXCEPT !.records = rs, !.code = GB, !.ca = caMap[GB],
                                  !.t = t, !.from = "foreign",
                                  !.data = marshalRoot(rs, caMap[GB].Name,
                                                       caMap[GB].ID, t)]
        /\ ret' = retOfExtract(Extract(
                    marshalRoot(rs, caMap[GB].Name, caMap[GB].ID, t)))
    /\ pc' = "done"
    /\ UNCHANGED <<cli, peer, caMap, locals>>

\* A call of qcstatements.Extract on a payload that departs from the layout
\* of root.
CallExtractOfMalformed ==
    /\ pc = "idle"
    /\ \E kind \in MalformedKinds, code \in {GB, DE} :
        /\ op' = "Extract"
        /\ args' = [noArgs EXCEPT !.kind = kind, !.code = code, !.ca = caMap[code],
                                  !.from = "malformed",
                                  !.data = MalformedPayload(kind, caMap[code].Name,
                                                            caMap[code].ID)]
        /\ ret' = retOfExtract(Extract(
                    MalformedPayload(kind, caMap[code].Name, caMap[code].ID)))
    /\ pc' = "done"
    /\ UNCHANGED <<cli, peer, caMap, locals>>

\* A call of the Serialize of src/eidas.go.
CallEidasSerialize ==
    /\ pc = "idle"
    /\ \E roles \in RoleListInputs, code \in {GB, DE} :
        /\ op' = "eidas.Serialize"
        /\ args' = [noArgs EXCEPT !.roles = roles, !.code = code,
                                  !.ca = caMap[code]]
        /\ ret' = retOfSerialize(
                    eidasSerialize(roles, caMap[code].Name, caMap[code].ID))
    /\ pc' = "done"
    /\ UNCHANGED <<cli, peer, caMap, locals>>

\* A call of the Serialize of the later revision of package eidas.
CallEidasSerializeChecked ==
    /\ pc = "idle"
    /\ \E roles \in RoleListInputs, code \in {GB, DE} :
        /\ op' = "eidas.Serialize (checked)"
        /\ args' = [noArgs EXCEPT !.roles = roles, !.code = code,
                                  !.ca = caMap[code]]
        /\ ret' = retOfSerialize(
                    eidasSerializeChecked(roles, caMap[code].Name, caMap[code].ID))
    /\ pc' = "done"
    /\ UNCHANGED <<cli, peer, caMap, locals>>

\* A call of keyUsageForType.
CallKeyUsageForType ==
    /\ pc = "idle"
    /\ \E t \in FlavorInputs :
        /\ op' = "keyUsageForType"
        /\ args' = [noArgs EXCEPT !.t = t]
        /\ ret' = retOfKeyUsage(keyUsageForType(t))
    /\ pc' = "done"
    /\ UNCHANGED <<cli, peer, caMap, locals>>

\* A call of KeyUsageExtension: ret.bytes is the Value of the extension.
CallKeyUsageExtension ==
    /\ pc = "idle"
    /\ \E usages \in KeyUsageListInputs :
        /\ op' = "KeyUsageExtension"
        /\ args' = [noArgs EXCEPT !.usages = usages]
        /\ ret' = [noRet EXCEPT !.bytes = KeyUsageExtension(usages).Value]
    /\ pc' = "done"
    /\ UNCHANGED <<cli, peer, caMap, locals>>

\* A call of extendedKeyUsageForType.
CallExtendedKeyUsageForType ==
    /\ pc = "idle"
    /\ \E t \in FlavorInputs :
        /\ op' = "extendedKeyUsageForType"
        /\ args' = [noArgs EXCEPT !.t = t]
        /\ ret' = retOfExtendedKeyUsage(extendedKeyUsageForType(t))
    /\ pc' = "done"
    /\ UNCHANGED <<cli, peer, caMap, locals>>

----------------------------------------------------------------------------
\* GenerateCSR, one action per step; pc names the step to take next.

\* A faulty variant of Return, against which C16 is tested: the key that was
\* generated is returned whatever the outcome.
ReturnKeepingKey(csr, k, err) ==
    /\ pc' = "done"
    /\ ret' = [noRet EXCEPT !.csr = csr, !.key = key, !.err = err]
    /\ key' = 0
    /\ ca' = {}
    /\ qc' = <<>>
    /\ keyUsage' = <<>>
    /\ extendedKeyUsage' = <<>>
    /\ extensions' = <<>>
    /\ subject' = <<>>
    /\ signerCalls' = 0
    /\ UNCHANGED <<cli, peer, caMap, op, args>>

\* A return from GenerateCSR: its locals are gone.
Return(csr, k, err) ==
    /\ pc' = "done"
    /\ ret' = [noRet EXCEPT !.csr = csr, !.key = k, !.err = err]
    /\ key' = 0
    /\ ca' = {}
    /\ qc' = <<>>
    /\ keyUsage' = <<>>
    /\ extendedKeyUsage' = <<>>
    /\ extensions' = <<>>
    /\ subject' = <<>>
    /\ signerCalls' = 0
    /\ UNCHANGED <<cli, peer, caMap, op, args>>

\* The call: GenerateCSR(countryCode, orgName, orgID, commonName, roles, qcType).
CallGenerateCSR ==
    /\ pc = "idle"
    /\ \E code \in CSRCountryCodeInputs, s \in SubjectInputs,
          roles \in RoleListInputs, t \in FlavorInputs :
        /\ op' = "GenerateCSR"
        /\ args' = [noArgs EXCEPT !.code = code, !.orgName = s[1], !.orgID = s[2],
                                  !.commonName = s[3], !.roles = roles, !.t = t]
    /\ ret' = noRet
    /\ pc' = "GenerateKey"
    /\ UNCHANGED <<cli, peer, caMap, locals>>

\* key, err := rsa.GenerateKey(rand.Reader, 2048)
GenerateKey ==
    /\ pc = "GenerateKey"
    /\ \/ /\ \E k \in Keys : key' = k
          /\ pc' = "CompetentAuthorityForCountryCode"
          /\ UNCHANGED <<cli, peer, caMap, op, args, ret, ca, qc, keyUsage,
                         extendedKeyUsage, extensions, subject, signerCalls>>
       \/ Return(noCSR, 0, "failed to generate key pair")

\* ca, err := qcstatements.CompetentAuthorityForCountryCode(countryCode)
LookupAuthority ==
    /\ pc = "CompetentAuthorityForCountryCode"
    /\ LET r == CompetentAuthorityForCountryCode(caMap, args.code)
       IN  IF r.err # "nil"
           THEN Return(noCSR, 0, r.err)
           ELSE /\ ca' = r.ptr
                /\ pc' = "Serialize"
                /\ UNCHANGED <<cli, peer, caMap, op, args, ret, key, qc, keyUsage,
                               extendedKeyUsage, extensions, subject, signerCalls>>

\* qc, err := qcstatements.Serialize(roles, *ca, qcType)
SerializeStatement ==
    /\ pc = "Serialize"
    /\ LET r == Serialize(args.roles, caMap[CHOOSE c \in ca : TRUE], args.t)
       IN  IF r.err # "nil"
           THEN Return(noCSR, 0, r.err)
           ELSE /\ qc' = r.bytes
                /\ pc' = "keyUsageForType"
                /\ UNCHANGED <<cli, peer, caMap, op, args, ret, key, ca, keyUsage,
                               extendedKeyUsage, extensions, subject, signerCalls>>

\* keyUsage, err := keyUsageForType(qcType)
SelectKeyUsage ==
    /\ pc = "keyUsageForType"
    /\ LET r == keyUsageForType(args.t)
       IN  IF r.err # "nil"
           THEN Return(noCSR, 0, r.err)
           ELSE /\ keyUsage' = r.usages
                /\ pc' = "extendedKeyUsageForType"
                /\ UNCHANGED <<cli, peer, caMap, op, args, ret, key, ca, qc,
                               extendedKeyUsage, extensions, subject, signerCalls>>

\* extendedKeyUsage, err := extendedKeyUsageForType(qcType)
SelectExtendedKeyUsage ==
    /\ pc = "extendedKeyUsageForType"
    /\ LET r == extendedKeyUsageForType(args.t)
       IN  IF r.err # "nil"
           THEN Return(noCSR, 0, r.err)
           ELSE /\ extendedKeyUsage' = r.oids
                /\ pc' = "extensions"
                /\ UNCHANGED <<cli, peer, caMap, op, args, ret, key, ca, qc, keyUsage,
                               extensions, subject, signerCalls>>

\* extensions := []pkix.Extension{...}, with its two appends
AssembleExtensions ==
    /\ pc = "extensions"
    /\ extensions' = assembleExtensions(keyUsage, extendedKeyUsage, key, qc)
    /\ pc' = "buildSubject"
    /\ UNCHANGED <<cli, peer, caMap, op, args, ret, key, ca, qc, keyUsage,
                   extendedKeyUsage, subject, signerCalls>>

\* A faulty variant of BuildSubject, against which C20 is tested: the error
\* of buildSubject is dropped and GenerateCSR goes on to the signer.
BuildSubjectIgnoringError ==
    /\ pc = "buildSubject"
    /\ subject' = buildSubject(args.code, args.orgName, args.commonName,
                               args.orgID).bytes
    /\ pc' = "CreateCertificateRequest"
    /\ UNCHANGED <<cli, peer, caMap, op, args, ret, key, ca, qc, keyUsage,
                   extendedKeyUsage, extensions, signerCalls>>

\* subject, err := buildSubject(countryCode, orgName, commonName, orgID)
BuildSubject ==
    /\ pc = "buildSubject"
    /\ LET r == buildSubject(args.code, args.orgName, args.commonName, args.orgID)
       IN  IF r.err # "nil"
           THEN Return(noCSR, 0, "failed to build CSR subject")
           ELSE /\ subject' = r.bytes
                /\ pc' = "CreateCertificateRequest"
                /\ UNCHANGED <<cli, peer, caMap, op, args, ret, key, ca, qc, keyUsage,
                               extendedKeyUsage, extensions, signerCalls>>

\* csr, err := x509.CreateCertificateRequest(rand.Reader, &template, key):
\* the signer is called, then fails or returns the signed request, which is
\* modelled by what it was made from.
CreateCertificateRequest ==
    /\ pc = "CreateCertificateRequest"
    /\ signerCalls' = signerCalls + 1
    /\ pc' = "return"
    /\ \/ ret' = [noRet EXCEPT !.csr = [RawSubject |-> subject,
                                         ExtraExtensions |-> extensions,
                                         key |-> key],
                                !.key = key]
       \/ ret' = [noRet EXCEPT !.err = "failed to generate csr"]
    /\ UNCHANGED <<cli, peer, caMap, op, args, key, ca, qc, keyUsage,
                   extendedKeyUsage, extensions, subject>>

\* return csr, key, nil / return nil, nil, err after the signer
ReturnCSR ==
    /\ pc = "return"
    /\ Return(ret.csr, ret.key, ret.err)

\* The caller lets go of what the last call returned.
Discard ==
    /\ pc = "done"
    /\ pc' = "idle"
    /\ op' = "none"
    /\ args' = noArgs
    /\ ret' = noRet
    /\ UNCHANGED <<cli, peer, caMap, locals>>

Next ==
    \/ CallLookup
    \/ CallSerialize
    \/ CallExtractOfSerialize
    \/ CallExtractOfPayload
    \/ CallExtractOfForeign
    \/ CallExtractOfMalformed
    \/ CallEidasSerialize
    \/ CallEidasSerializeChecked
    \/ CallKeyUsageForType
    \/ CallKeyUsageExtension
    \/ CallExtendedKeyUsageForType
    \/ CallGenerateCSR
    \/ GenerateKey
    \/ LookupAuthority
    \/ SerializeStatement
    \/ SelectKeyUsage
    \/ SelectExtendedKeyUsage
    \/ AssembleExtensions
    \/ BuildSubject
    \/ CreateCertificateRequest
    \/ ReturnCSR
    \/ Discard

Spec == Init /\ [][Next]_vars

----------------------------------------------------------------------------
\* Two concurrent callers: one runs GenerateCSR step by step while the
\* other calls the operations of the package, each of which reads the
\* tables caMap and roleMap and writes neither.

\* "Foo Org", "Foo Org ID", "Foo Name"
FooOrg == <<70, 111, 111, 32, 79, 114, 103>>
FooOrgID == <<70, 111, 111, 32, 79, 114, 103, 32, 73, 68>>
FooName == <<70, 111, 111, 32, 78, 97, 109, 101>>

\* The role lists the concurrent callers pass.
ConcurrentRoleLists ==
    {<<>>, <<RoleAccountInformation>>,
     <<RolePaymentInitiation, RoleAccountServicing>>, <<RoleUnknown>>}

\* The call of GenerateCSR by the first caller.
CallGenerateCSRConcurrently ==
    /\ pc = "idle"
    /\ \E code \in {GB, ZZ}, roles \in ConcurrentRoleLists,
          t \in {QWACType, QSEALType, oidQcType} :
        /\ op' = "GenerateCSR"
        /\ args' = [noArgs EXCEPT !.code = code, !.orgName = FooOrg,
                                  !.orgID = FooOrgID, !.commonName = FooName,
                                  !.roles = roles, !.t = t]
    /\ ret' = noRet
    /\ pc' = "GenerateKey"
    /\ UNCHANGED <<cli, peer, caMap, locals>>

\* The second caller has called operation o with arguments a, which
\* returned r.
peerAfter(o, a, r) == [pc |-> "done", op |-> o, args |-> a, ret |-> r]

\* A faulty variant of PeerLookup, against which C17 is tested: the lookup
\* marks the entry it found by clearing its name in the table.
PeerLookupWriting ==
    /\ peer.pc = "idle"
    /\ \E code \in {GB, ZZ} :
        /\ peer' = peerAfter("CompetentAuthorityForCountryCode",
                             [noArgs EXCEPT !.code = code],
                             retOfLookup(CompetentAuthorityForCountryCode(caMap, code)))
        /\ caMap' = [c \in DOMAIN caMap |->
                        IF c = code THEN [caMap[c] EXCEPT !.Name = <<>>]
                        ELSE caMap[c]]
    /\ UNCHANGED <<cli, pc, op, args, ret, locals>>

\* The second caller calls CompetentAuthorityForCountryCode.
PeerLookup ==
    /\ peer.pc = "idle"
    /\ \E code \in {GB, ZZ} :
        peer' = peerAfter("CompetentAuthorityForCountryCode",
                          [noArgs EXCEPT !.code = code],
                          retOfLookup(CompetentAuthorityForCountryCode(caMap, code)))
    /\ UNCHANGED <<cli, caMap, pc, op, args, ret, locals>>

\* The second caller calls qcstatements.Serialize.
PeerSerialize ==
    /\ peer.pc = "idle"
    /\ \E roles \in ConcurrentRoleLists, code \in {GB, DE} :
        peer' = peerAfter("Serialize",
                          [noArgs EXCEPT !.roles = roles, !.code = code,
                                         !.ca = caMap[code], !.t = QSEALType],
                          retOfSerialize(Serialize(roles, caMap[code], QSEALType)))
    /\ UNCHANGED <<cli, caMap, pc, op, args, ret, locals>>

\* The second caller calls qcstatements.Extract on what its Serialize
\* returned.
PeerExtract ==
    /\ peer.pc = "done"
    /\ peer.op = "Serialize"
    /\ peer.ret.err = "nil"
    /\ peer' = peerAfter("Extract",
                         [peer.args EXCEPT !.data = peer.ret.bytes,
                                           !.from = "Serialize"],
                         retOfExtract(Extract(peer.ret.bytes)))
    /\ UNCHANGED <<cli, caMap, pc, op, args, ret, locals>>

\* The second caller calls keyUsageForType.
PeerKeyUsageForType ==
    /\ peer.pc = "idle"
    /\ \E t \in {QWACType, oidQcType} :
        peer' = peerAfter("keyUsageForType", [noArgs EXCEPT !.t = t],
                          retOfKeyUsage(keyUsageForType(t)))
    /\ UNCHANGED <<cli, caMap, pc, op, args, ret, locals>>

\* The second caller calls extendedKeyUsageForType.
PeerExtendedKeyUsageForType ==
    /\ peer.pc = "idle"
    /\ \E t \in {QWACType, QSEALType} :
        peer' = peerAfter("extendedKeyUsageForType", [noArgs EXCEPT !.t = t],
                          retOfExtendedKeyUsage(extendedKeyUsageForType(t)))
    /\ UNCHANGED <<cli, caMap, pc, op, args, ret, locals>>

\* The second caller calls the extension builders, one after the other:
\* ret.csr.ExtraExtensions holds the four extensions they return.
PeerBuildExtensions ==
    /\ peer.pc = "idle"
    /\ \E k \in Keys :
        peer' = peerAfter("extension builders", noArgs,
                    [noRet EXCEPT !.key = k, !.csr.ExtraExtensions =
                        <<KeyUsageExtension(<<KeyUsageDigitalSignature>>),
                          extendedKeyUsageExtension(<<TLSWWWServerAuthUsage>>),
                          subjectKeyIdentifier(k),
                          qcStatementsExtension(Payload1)>>])
    /\ UNCHANGED <<cli, caMap, pc, op, args, ret, locals>>

\* The second caller calls buildSubject.
PeerBuildSubject ==
    /\ peer.pc = "idle"
    /\ \E code \in {GB, DE} :
        peer' = peerAfter("buildSubject",
                    [noArgs EXCEPT !.code = code, !.orgName = FooOrg,
                                   !.orgID = FooOrgID, !.commonName = FooName],
                    retOfSerialize(buildSubject(code, FooOrg, FooName, FooOrgID)))
    /\ UNCHANGED <<cli, caMap, pc, op, args, ret, locals>>

\* The second caller lets go of what its last call returned.
PeerDiscard ==
    /\ peer.pc = "done"
    /\ peer' = noPeer
    /\ UNCHANGED <<cli, caMap, pc, op, args, ret, locals>>

NextConcurrent ==
    \/ CallGenerateCSRConcurrently
    \/ GenerateKey
    \/ LookupAuthority
    \/ SerializeStatement
    \/ SelectKeyUsage
    \/ SelectExtendedKeyUsage
    \/ AssembleExtensions
    \/ BuildSubject
    \/ CreateCertificateRequest
    \/ ReturnCSR
    \/ Discard
    \/ PeerLookup
    \/ PeerSerialize
    \/ PeerExtract
    \/ PeerKeyUsageForType
    \/ PeerExtendedKeyUsageForType
    \/ PeerBuildExtensions
    \/ PeerBuildSubject
    \/ PeerDiscard

SpecConcurrent == Init /\ [][NextConcurrent]_vars

----------------------------------------------------------------------------
\* A caller that writes to the CompetentAuthority it got back: the lookup
\* returns the *CompetentAuthority stored in caMap, so that an assignment
\* to a field of *ca is an assignment to the entry of the table.

\* "Evil CA", "XX-EVIL": the name and the id the caller writes
writtenName == <<69, 118, 105, 108, 32, 67, 65>>
writtenID == <<88, 88, 45, 69, 86, 73, 76>>

\* ca.Name = ... or ca.ID = ..., by the caller that holds the pointer ca
\* returned by the lookup of GB or of DE.
WriteReturnedAuthority ==
    /\ pc = "done"
    /\ op = "CompetentAuthorityForCountryCode"
    /\ ret.ptr \subseteq {GB, DE}
    /\ \E c \in ret.ptr :
        \/ caMap' = [caMap EXCEPT ![c].Name = writtenName]
        \/ caMap' = [caMap EXCEPT ![c].ID = writtenID]
    /\ UNCHANGED <<cli, peer, pc, op, args, ret, locals>>

NextCallerWrites ==
    \/ CallLookup
    \/ WriteReturnedAuthority
    \/ CallGenerateCSRConcurrently
    \/ GenerateKey
    \/ LookupAuthority
    \/ SerializeStatement
    \/ SelectKeyUsage
    \/ SelectExtendedKeyUsage
    \/ AssembleExtensions
    \/ BuildSubject
    \/ CreateCertificateRequest
    \/ ReturnCSR
    \/ Discard

SpecCallerWrites == Init /\ [][NextCallerWrites]_vars

----------------------------------------------------------------------------
\* The command-line tool, cmd/cli: main parses its flags, calls GenerateCSR
\* and writes the request, then the key, each to a file of its own flag.

\* "QWAC", "QSEAL", "qwac"
flagQWAC == <<81, 87, 65, 67>>
flagQSEAL == <<81, 83, 69, 65, 76>>
flagLowerQWAC == <<113, 119, 97, 99>>

\* "out.csr", "out.key": the defaults of -csr and -key
outCSRDefault == <<111, 117, 116, 46, 99, 115, 114>>
outKeyDefault == <<111, 117, 116, 46, 107, 101, 121>>

\* ","
comma == 44

\* The values of -roles: "PSP_AI" (the default), "PSP_AS,PSP_PI", "" and
\* "PSP_AI,PSP_XX".
RolesFlagInputs ==
    {RoleAccountInformation,
     RoleAccountServicing \o <<comma>> \o RolePaymentInitiation,
     emptyString,
     RoleAccountInformation \o <<comma>> \o RoleUnknown}

\* The values of -type.
TypeFlagInputs == {flagQWAC, flagQSEAL, flagLowerQWAC}

\* The values of -csr and of -key: the defaults, and the same path for both.
OutKeyInputs == {outKeyDefault, outCSRDefault}

\* strings.Split(s, ","), from position i on: cur is the piece being read,
\* acc the pieces before it.
RECURSIVE splitFrom(_, _, _, _)
splitFrom(s, i, cur, acc) ==
    IF i > Len(s) THEN Append(acc, cur)
    ELSE IF s[i] = comma THEN splitFrom(s, i + 1, <<>>, Append(acc, cur))
    ELSE splitFrom(s, i + 1, Append(cur, s[i]), acc)

\* strings.Split(*roles, ","): the empty string gives one empty piece.
splitRoles(s) == splitFrom(s, 1, <<>>, <<>>)

\* typeFromFlag(in)
typeFromFlag(in) ==
    IF in = flagQWAC THEN [t |-> QWACType, err |-> "nil"]
    ELSE IF in = flagQSEAL THEN [t |-> QSEALType, err |-> "nil"]
    ELSE [t |-> <<>>, err |-> "Unknown QC type"]

\* log.Fatal: the process exits with status 1 where it stands.
fatal(c, e) == [c EXCEPT !.pc = "exit", !.err = e, !.status = 1]

\* One call on an output file, made by writeCSR or by writeKey.
fileOp(by, call, path, e) == [by |-> by, call |-> call, path |-> path, err |-> e]

\* A PEM block, of the request or of the key.
pemBlock(type, d, k) == [Type |-> type, csr |-> d, key |-> k]

\* The tool is started: flag.Parse() has read the flags.
CLIStart ==
    /\ cli.pc = "idle"
    /\ pc = "idle"
    /\ \E code \in {emptyString, GB, ZZ}, on \in {emptyString, FooOrg},
          oi \in {emptyString, FooOrgID}, cn \in {emptyString, FooName},
          rs \in RolesFlagInputs, ty \in TypeFlagInputs, ok \in OutKeyInputs :
        cli' = [noCLI EXCEPT !.pc = "main", !.countryCode = code, !.orgName = on,
                             !.orgID = oi, !.commonName = cn, !.roles = rs,
                             !.qcType = ty, !.outCSR = outCSRDefault,
                             !.outKey = ok,
                             !.files = [f \in {outCSRDefault, ok} |-> noFile]]
    /\ UNCHANGED <<peer, caMap, pc, op, args, ret, locals>>

\* if *countryCode == "" { log.Fatal(...) } and the three checks after it
CLICheckFlags ==
    /\ cli.pc = "main"
    /\ cli' = IF cli.countryCode = emptyString
              THEN fatal(cli, "-country-code is required")
              ELSE IF cli.orgName = emptyString
              THEN fatal(cli, "-organization-name is required")
              ELSE IF cli.orgID = emptyString
              THEN fatal(cli, "-organization-id is required")
              ELSE IF cli.commonName = emptyString
              THEN fatal(cli, "-common-name is required")
              ELSE [cli EXCEPT !.pc = "typeFromFlag"]
    /\ UNCHANGED <<peer, caMap, pc, op, args, ret, locals>>

\* t, err := typeFromFlag(*qcType)
CLITypeFromFlag ==
    /\ cli.pc = "typeFromFlag"
    /\ cli' = IF typeFromFlag(cli.qcType).err # "nil"
              THEN fatal(cli, typeFromFlag(cli.qcType).err)
              ELSE [cli EXCEPT !.pc = "Split", !.t = typeFromFlag(cli.qcType).t]
    /\ UNCHANGED <<peer, caMap, pc, op, args, ret, locals>>

\* for _, role := range strings.Split(*roles, ",") { r = append(r, ...) }
CLISplitRoles ==
    /\ cli.pc = "Split"
    /\ cli' = [cli EXCEPT !.pc = "GenerateCSR", !.r = splitRoles(cli.roles)]
    /\ UNCHANGED <<peer, caMap, pc, op, args, ret, locals>>

\* The call of main: eidas.GenerateCSR(*countryCode, *orgName, *orgID,
\* *commonName, r, t), which then runs step by step.
CLICallGenerateCSR ==
    /\ cli.pc = "GenerateCSR"
    /\ pc = "idle"
    /\ op' = "GenerateCSR"
    /\ args' = [noArgs EXCEPT !.code = cli.countryCode, !.orgName = cli.orgName,
                              !.orgID = cli.orgID, !.commonName = cli.commonName,
                              !.roles = cli.r, !.t = cli.t]
    /\ ret' = noRet
    /\ pc' = "GenerateKey"
    /\ cli' = [cli EXCEPT !.pc = "GenerateCSR returns"]
    /\ UNCHANGED <<peer, caMap, locals>>

\* d, key, err := eidas.GenerateCSR(...); if err != nil { log.Fatalf(...) }
CLIAfterGenerateCSR ==
    /\ cli.pc = "GenerateCSR returns"
    /\ pc = "done"
    /\ cli' = IF ret.err # "nil"
              THEN fatal(cli, ret.err)
              ELSE [cli EXCEPT !.pc = "writeCSR", !.d = ret.csr, !.key = ret.key]
    /\ pc' = "idle"
    /\ op' = "none"
    /\ args' = noArgs
    /\ ret' = noRet
    /\ UNCHANGED <<peer, caMap, locals>>

\* os.OpenFile(path, os.O_WRONLY|os.O_CREATE|os.O_TRUNC, perm), called by
\* `by`: the file is created or truncated, or the call fails and the
\* function returns the error, upon which main exits.
openFile(by, path, next) ==
    /\ \/ cli' = [cli EXCEPT !.pc = next,
                             !.files[path] = emptyFile,
                             !.ops = Append(@, fileOp(by, "OpenFile", path, "nil"))]
       \/ cli' = [fatal(cli, "open failed") EXCEPT
                             !.ops = Append(@, fileOp(by, "OpenFile", path,
                                                      "open failed"))]
    /\ UNCHANGED <<peer, caMap, pc, op, args, ret, locals>>

\* pem.Encode(f, &pem.Block{...}): the block is written, or the write fails
\* part of the way; the deferred Close comes next either way.
pemEncode(by, path, block, next) ==
    /\ \/ cli' = [cli EXCEPT !.pc = next,
                             !.files[path].blocks = Append(@, block),
                             !.ops = Append(@, fileOp(by, "Encode", path, "nil"))]
       \/ cli' = [cli EXCEPT !.pc = next,
                             !.files[path].torn = TRUE,
                             !.err = "write failed",
                             !.ops = Append(@, fileOp(by, "Encode", path,
                                                      "write failed"))]
    /\ UNCHANGED <<peer, caMap, pc, op, args, ret, locals>>

\* The deferred f.Close() and the return: the error of Encode if there was
\* one, else that of Close; on an error main exits, else it goes on to next.
closeFile(by, path, next) ==
    /\ \/ cli' = IF cli.err # "nil"
                 THEN [fatal(cli, cli.err) EXCEPT
                          !.ops = Append(@, fileOp(by, "Close", path, "nil"))]
                 ELSE [cli EXCEPT !.pc = next,
                          !.ops = Append(@, fileOp(by, "Close", path, "nil"))]
       \/ cli' = [fatal(cli, IF cli.err # "nil" THEN cli.err ELSE "close failed")
                     EXCEPT !.ops = Append(@, fileOp(by, "Close", path,
                                                     "close failed"))]
    /\ UNCHANGED <<peer, caMap, pc, op, args, ret, locals>>

\* writeCSR(*outCSR, d)
WriteCSROpen ==
    /\ cli.pc = "writeCSR"
    /\ openFile("writeCSR", cli.outCSR, "writeCSR Encode")

WriteCSREncode ==
    /\ cli.pc = "writeCSR Encode"
    /\ pemEncode("writeCSR", cli.outCSR,
                 pemBlock("CERTIFICATE REQUEST", cli.d, 0), "writeCSR Close")

WriteCSRClose ==
    /\ cli.pc = "writeCSR Close"
    /\ closeFile("writeCSR", cli.outCSR, "writeKey")

\* A faulty variant of WriteKeyOpen, against which C21 is tested: the key
\* file is opened as soon as main reaches writeCSR.
WriteKeyOpenEarly ==
    /\ cli.pc = "writeCSR"
    /\ openFile("writeKey", cli.outKey, "writeKey Encode")

\* writeKey(*outKey, key): x509.MarshalPKCS8PrivateKey does not fail on an
\* RSA key.
WriteKeyOpen ==
    /\ cli.pc = "writeKey"
    /\ openFile("writeKey", cli.outKey, "writeKey Encode")

WriteKeyEncode ==
    /\ cli.pc = "writeKey Encode"
    /\ pemEncode("writeKey", cli.outKey,
                 pemBlock("PRIVATE KEY", noCSR, cli.key), "writeKey Close")

WriteKeyClose ==
    /\ cli.pc = "writeKey Close"
    /\ closeFile("writeKey", cli.outKey, "return")

\* main returns: the process exits with status 0.
CLIReturn ==
    /\ cli.pc = "return"
    /\ cli' = [cli EXCEPT !.pc = "exit", !.status = 0]
    /\ UNCHANGED <<peer, caMap, pc, op, args, ret, locals>>

NextCLI ==
    \/ CLIStart
    \/ CLICheckFlags
    \/ CLITypeFromFlag
    \/ CLISplitRoles
    \/ CLICallGenerateCSR
    \/ GenerateKey
    \/ LookupAuthority
    \/ SerializeStatement
    \/ SelectKeyUsage
    \/ SelectExtendedKeyUsage
    \/ AssembleExtensions
    \/ BuildSubject
    \/ CreateCertificateRequest
    \/ ReturnCSR
    \/ CLIAfterGenerateCSR
    \/ WriteCSROpen
    \/ WriteCSREncode
    \/ WriteCSRClose
    \/ WriteKeyOpen
    \/ WriteKeyEncode
    \/ WriteKeyClose
    \/ CLIReturn

SpecCLI == Init /\ [][NextCLI]_vars

----------------------------------------------------------------------------
\* Reading of DER values, for the properties below.

\* The four valid role tokens.
ValidTokens ==
    {RoleAccountServicing, RolePaymentInitiation, RoleAccountInformation,
     RolePaymentInstruments}

\* What stands for an element that cannot be read.
badElement == [ident |-> -1, val |-> <<>>]

RECURSIVE derFrom(_, _, _)
derFrom(b, off, acc) ==
    IF off >= Len(b) THEN acc
    ELSE LET t == parseTagAndLength(b, off)
         IN  IF ~t.ok \/ t.off + t.length > Len(b) THEN <<badElement>>
             ELSE derFrom(b, t.off + t.length,
                     Append(acc, [ident |-> b[off + 1],
                                  val |-> SubSeq(b, t.off + 1, t.off + t.length)]))

\* The elements that the octets b are the concatenation of, each with its
\* identifier octet and its contents.
derElements(b) == derFrom(b, 0, <<>>)

\* The object identifier that the element e holds; <<>> if it holds none.
derOID(e) ==
    IF e.ident = TagOID /\ parseObjectIdentifier(e.val).ok
    THEN parseObjectIdentifier(e.val).val ELSE <<>>

\* Whether e is a SEQUENCE of exactly n elements.
isSequenceOf(e, n) ==
    e.ident = Constructed(TagSequence) /\ Len(derElements(e.val)) = n
        /\ \A i \in 1..n : derElements(e.val)[i] # badElement

\* Element i of the constructed element e.
child(e, i) == derElements(e.val)[i]

----------------------------------------------------------------------------
\* Properties.

\* C1: for every role list drawn from the four valid tokens (empty list and
\* repeats included), every supported country code and both flavors,
\* Serialize succeeds, and Extract of what it returned succeeds and returns
\* the same roles in the same order with the name and id of the authority
\* of the table.
C1_RoundTrip ==
    (/\ op \in {"Serialize", "Extract"}
     /\ args.from \in {"", "Serialize"}
     /\ \A i \in 1..Len(args.roles) : args.roles[i] \in ValidTokens
     /\ args.code \in DOMAIN caMapInit
     /\ args.t \in {QWACType, QSEALType})
    => /\ ret.err = "nil"
       /\ op = "Extract" =>
            /\ ret.roles = args.roles
            /\ ret.name = caMapInit[args.code].Name
            /\ ret.id = caMapInit[args.code].ID

\* Extract has returned the roles of a list that repeats a role, encoded
\* for the seal flavor.
C1_Witness ==
    /\ op = "Extract"
    /\ args.from = "Serialize"
    /\ args.roles = <<RolePaymentInitiation, RolePaymentInitiation>>
    /\ args.t = QSEALType
    /\ ret.roles = args.roles
    /\ ret.id = caMapInit[args.code].ID

\* C2: Serialize fails with the unknown-role error and returns no bytes
\* whenever some role of the list, at whatever position, is outside the four
\* valid tokens.
C2_UnknownRoleFailsClosed ==
    (/\ op = "Serialize"
     /\ \E i \in 1..Len(args.roles) : args.roles[i] \notin ValidTokens)
    => /\ ret.err = "Unknown role"
       /\ ret.bytes = <<>>

\* A Serialize that failed on a bad role after a valid one.
C2_Witness ==
    /\ op = "Serialize"
    /\ Len(args.roles) = 2
    /\ args.roles[1] \in ValidTokens
    /\ args.roles[2] = RoleUnknown
    /\ ret.err = "Unknown role"
    /\ ret.bytes = <<>>

\* Whether the object identifier oid is the one of the catalog for the role
\* string s: {0,4,0,19495,1,c} with c the code of s, s one of the four tokens.
catalogPair(oid, s) ==
    /\ s \in ValidTokens
    /\ oid = <<0, 4, 0, 19495, 1,
               CASE s = RoleAccountServicing -> 1
                 [] s = RolePaymentInitiation -> 2
                 [] s = RoleAccountInformation -> 3
                 [] s = RolePaymentInstruments -> 4>>

\* The element of the output of a Serialize that holds the roles: the first
\* element of the roles-and-authority SEQUENCE.
rolesElement(bytes) == child(child(child(derElements(bytes)[1], 2), 2), 1)

\* C3: every role object identifier that a Serialize of the repository
\* emits is {0,4,0,19495,1,c} with c in 1..4 the catalog code of the role
\* string it is paired with; no token outside the closed set is encoded.
\* For qcstatements.Serialize the pairs are the SEQUENCEs of the role list,
\* for the Serialize of package eidas they are the consecutive elements of
\* the flat list inside it.
C3_RoleOIDsFromCatalog ==
    /\ (op = "Serialize" /\ ret.err = "nil") =>
        \A i \in 1..Len(derElements(rolesElement(ret.bytes).val)) :
            LET pair == derElements(rolesElement(ret.bytes).val)[i]
            IN  /\ isSequenceOf(pair, 2)
                /\ catalogPair(derOID(child(pair, 1)), child(pair, 2).val)
    /\ (op \in {"eidas.Serialize", "eidas.Serialize (checked)"} /\ ret.err = "nil") =>
        LET flat == derElements(child(rolesElement(ret.bytes), 1).val)
        IN  /\ Len(flat) = 2 * Len(args.roles)
            /\ \A i \in 1..Len(args.roles) :
                catalogPair(derOID(flat[2 * i - 1]), flat[2 * i].val)

\* C4: the lookup returns the entry of the fixed table when the code is
\* exactly one of its keys, and for every other string fails with the
\* unknown-country-code error and returns no authority.
C4_LookupExactKeyOrError ==
    op = "CompetentAuthorityForCountryCode" =>
        IF args.code \in DOMAIN caMapInit
        THEN /\ ret.err = "nil"
             /\ \E c \in ret.ptr : ret.ptr = {c} /\ caMap[c] = caMapInit[args.code]
        ELSE /\ ret.err = "unknown country code"
             /\ ret.ptr = {}

\* The lookup of the lower-case spelling of a supported code has failed.
C4_Witness ==
    /\ op = "CompetentAuthorityForCountryCode"
    /\ args.code = gbLower
    /\ ret.err = "unknown country code"
    /\ ret.ptr = {}

C6_ExtendedKeyUsageForType ==
    op = "extendedKeyUsageForType" =>
        /\ CASE args.t = <<0, 4, 0, 1862, 1, 6, 3>> ->
                  /\ ret.err = "nil"
                  /\ ret.oids = << <<1, 3, 6, 1, 5, 5, 7, 3, 1>>,
                                   <<1, 3, 6, 1, 5, 5, 7, 3, 2>> >>
             [] args.t = <<0, 4, 0, 1862, 1, 6, 2>> ->
                  ret.err = "nil" /\ ret.oids = <<>>
             [] OTHER -> ret.err = "unknown QC type"
        /\ (ret.err # "nil") <=> (keyUsageForType(args.t).err # "nil")

\* extendedKeyUsageForType has answered for the seal flavor.
C6_Witness ==
    /\ op = "extendedKeyUsageForType"
    /\ args.t = QSEALType
    /\ ret.oids = <<>>
    /\ ret.err = "nil"

\* The identifiers of a list of extensions, in order.
extensionIds(exts) == [i \in 1..Len(exts) |-> exts[i].Id]

\* C7: the extension list GenerateCSR hands to the signer is exactly
\* [key-usage, extended-key-usage, subject-key-identifier,
\* qualified-statement] for the website-authentication flavor and exactly
\* [key-usage, subject-key-identifier, qualified-statement] for the seal
\* flavor, and the signer is reached with no other flavor.
C7_ExtensionListPerFlavor ==
    LET expected ==
            IF args.t = <<0, 4, 0, 1862, 1, 6, 3>>
            THEN << <<2, 5, 29, 15>>, <<2, 5, 29, 37>>, <<2, 5, 29, 14>>,
                    <<1, 3, 6, 1, 5, 5, 7, 1, 3>> >>
            ELSE << <<2, 5, 29, 15>>, <<2, 5, 29, 14>>,
                    <<1, 3, 6, 1, 5, 5, 7, 1, 3>> >>
    IN  /\ pc = "CreateCertificateRequest" =>
            /\ args.t \in {QWACType, QSEALType}
            /\ extensionIds(extensions) = expected
        /\ (op = "GenerateCSR" /\ ret.csr # noCSR) =>
            extensionIds(ret.csr.ExtraExtensions) = expected

\* GenerateCSR is about to call the signer for a seal request.
C7_Witness ==
    /\ pc = "CreateCertificateRequest"
    /\ args.t = QSEALType
    /\ Len(extensions) = 3

\* The attributes of an encoded subject: for each RDN of the sequence, the
\* list of its (type, value) pairs.
subjectAttributes(bytes) ==
    LET rdns == derElements(derElements(bytes)[1].val)
    IN  [i \in 1..Len(rdns) |->
            [j \in 1..Len(derElements(rdns[i].val)) |->
                LET atv == derElements(rdns[i].val)[j]
                IN  [Type |-> derOID(child(atv, 1)), Value |-> child(atv, 2).val]]]

\* C8: the subject GenerateCSR builds consists of exactly four
\* single-attribute RDNs, in the order (2.5.4.6, countryCode),
\* (2.5.4.10, orgName), (2.5.4.97, orgID), (2.5.4.3, commonName).
C8_SubjectOrder ==
    pc = "CreateCertificateRequest" =>
        /\ Len(derElements(subject)) = 1
        /\ derElements(subject)[1].ident = Constructed(TagSequence)
        /\ \A i \in 1..Len(derElements(derElements(subject)[1].val)) :
            derElements(derElements(subject)[1].val)[i].ident = Constructed(TagSet)
        /\ subjectAttributes(subject) =
            << <<[Type |-> <<2, 5, 4, 6>>, Value |-> args.code]>>,
               <<[Type |-> <<2, 5, 4, 10>>, Value |-> args.orgName]>>,
               <<[Type |-> <<2, 5, 4, 97>>, Value |-> args.orgID]>>,
               <<[Type |-> <<2, 5, 4, 3>>, Value |-> args.commonName]>> >>

\* GenerateCSR has built the subject of the request of "Foo Org".
C8_Witness ==
    /\ pc = "CreateCertificateRequest"
    /\ args.orgName = <<70, 111, 111, 32, 79, 114, 103>>
    /\ args.orgID = <<70, 111, 111, 32, 79, 114, 103, 32, 73, 68>>
    /\ subject # <<>>

\* "Financial Conduct Authority", "GB-FCA"
nameFCA ==
    <<70, 105, 110, 97, 110, 99, 105, 97, 108, 32, 67, 111, 110, 100, 117, 99,
      116, 32, 65, 117, 116, 104, 111, 114, 105, 116, 121>>
idFCA == <<71, 66, 45, 70, 67, 65>>

\* C9: Extract of the first example payload returns exactly the roles
\* [PSP_PI, PSP_AI], and of the second exactly [PSP_AS, PSP_IC], each with
\* the name "Financial Conduct Authority" and the id "GB-FCA".
C9_ExamplePayloadsDecode ==
    (op = "Extract" /\ args.from = "payload") =>
        /\ ret.err = "nil"
        /\ ret.name = nameFCA
        /\ ret.id = idFCA
        /\ args.data = Payload1 =>
            ret.roles = <<RolePaymentInitiation, RoleAccountInformation>>
        /\ args.data = Payload2 =>
            ret.roles = <<RoleAccountServicing, RolePaymentInstruments>>

\* C10: the output of Serialize is an outer SEQUENCE of exactly two
\* SEQUENCEs; the first holds OID 0.4.0.1862.1.6 and a SEQUENCE OF holding
\* exactly one OID, the flavor passed in; the second holds OID 0.4.0.19495.2
\* and a SEQUENCE holding a SEQUENCE OF with one SEQUENCE {OID
\* 0.4.0.19495.1.<code>, UTF8String <token>} per input role in the order of
\* the input, then the authority name and id as UTF8Strings.
C10_SerializeLayout ==
    (op = "Serialize" /\ ret.err = "nil") =>
        /\ Len(derElements(ret.bytes)) = 1
        /\ LET outer == derElements(ret.bytes)[1]
               type == child(outer, 1)
               stmt == child(outer, 2)
               info == child(stmt, 2)
               list == child(info, 1)
           IN  /\ isSequenceOf(outer, 2)
               /\ isSequenceOf(type, 2)
               /\ derOID(child(type, 1)) = <<0, 4, 0, 1862, 1, 6>>
               /\ isSequenceOf(child(type, 2), 1)
               /\ derOID(child(child(type, 2), 1)) = args.t
               /\ isSequenceOf(stmt, 2)
               /\ derOID(child(stmt, 1)) = <<0, 4, 0, 19495, 2>>
               /\ isSequenceOf(info, 3)
               /\ isSequenceOf(list, Len(args.roles))
               /\ \A i \in 1..Len(args.roles) :
                    /\ isSequenceOf(child(list, i), 2)
                    /\ catalogPair(derOID(child(child(list, i), 1)), args.roles[i])
                    /\ child(child(list, i), 2) =
                        [ident |-> TagUTF8String, val |-> args.roles[i]]
               /\ child(info, 2) = [ident |-> TagUTF8String, val |-> args.ca.Name]
               /\ child(info, 3) = [ident |-> TagUTF8String, val |-> args.ca.ID]

\* Serialize has encoded a list that repeats a role.
C10_Witness ==
    /\ op = "Serialize"
    /\ ret.err = "nil"
    /\ args.roles = <<RoleAccountInformation, RoleAccountInformation>>
    /\ args.t = QWACType

\* Whether the role record r is one Serialize writes.
catalogRecord(r) == catalogPair(r.OID, r.Role)

\* C11: Extract reports every structurally decodable role string as it is
\* encoded: a role string outside the four valid tokens is returned, not
\* rejected, and a role string is returned unchanged whatever the object
\* identifier paired with it; every output of Serialize is accepted, and a
\* payload holding a record outside the catalog is accepted although no
\* call of Serialize produces it.
C11_ExtractMorePermissive ==
    /\ (op = "Extract" /\ args.from = "foreign") =>
        /\ ret.err = "nil"
        /\ ret.roles = [i \in 1..Len(args.records) |-> args.records[i].Role]
        /\ ret.name = args.ca.Name
        /\ ret.id = args.ca.ID
        /\ (\E i \in 1..Len(args.records) : ~catalogRecord(args.records[i])) =>
            \A roles \in RoleListInputs, code \in DOMAIN caMapInit,
               t \in FlavorInputs :
                Serialize(roles, caMapInit[code], t).bytes # args.data
    /\ (op = "Extract" /\ args.from = "Serialize") => ret.err = "nil"

\* Extract has returned a valid token whose record carries the code of
\* another role, and after it a token outside the closed set.
C11_Witness ==
    /\ op = "Extract"
    /\ args.from = "foreign"
    /\ args.records = <<ForeignRecords[2], ForeignRecords[4]>>
    /\ ret.err = "nil"
    /\ ret.roles = <<RoleAccountServicing, RoleUnknown>>

\* C12: Extract fails with a decoding error, returning no roles and empty
\* name and id, whenever the structure of the input differs from the layout
\* Serialize writes at any nesting level (truncated input, a missing or
\* wrongly typed element, an extra element inside a sequence, octets after
\* the outer sequence) or a string field is not valid UTF-8.
C12_MalformedRejected ==
    (op = "Extract" /\ args.from = "malformed") =>
        /\ ret.err = "failed to decode eIDAS"
        /\ ret.roles = <<>>
        /\ ret.name = <<>>
        /\ ret.id = <<>>

\* The departures from the layout that Extract does refuse.
C12_RefusedKinds ==
    (op = "Extract" /\ args.from = "malformed"
        /\ args.kind \in {"truncated", "empty", "missing id", "wrong type",
                          "invalid UTF-8"})
    => ret = [noRet EXCEPT !.err = "failed to decode eIDAS"]

\* The departures from the layout that Extract accepts, returning the role
\* and the authority.
C12_AcceptedKinds ==
    (op = "Extract" /\ args.from = "malformed"
        /\ args.kind \in {"extra pair in role", "extra element in rolesInfo",
                          "extra element in root", "trailing bytes"})
    => ret = [noRet EXCEPT !.roles = <<RoleAccountInformation>>,
                           !.name = args.ca.Name, !.id = args.ca.ID]

\* The numbers of the bits set in an encoded BIT STRING, bit 0 being the
\* most significant bit of the first octet after the count of unused bits;
\* {-1} if the octets are no single BIT STRING.
bitsSet(bytes) ==
    IF Len(derElements(bytes)) # 1 \/ derElements(bytes)[1].ident # TagBitString
        \/ Len(derElements(bytes)[1].val) = 0
    THEN {-1}
    ELSE LET v == derElements(bytes)[1].val
         IN  {i \in 0..(8 * (Len(v) - 1) - 1) :
                (v[2 + (i \div 8)] \div pow2(7 - (i % 8))) % 2 = 1}

\* The number of the bit that stands for a usage in the KeyUsage BIT STRING:
\* digital signature 0, content commitment 1, ..., decipher-only 8.
usageBitNumber(usage) == CHOOSE k \in 0..8 : pow2(k) = usage

\* C13: for every set of key usages passed to KeyUsageExtension, the bit
\* string has exactly the bits set that carry the standard numbers of those
\* usages (digital signature bit 0, content commitment bit 1, key
\* encipherment bit 2, up to decipher-only bit 8) and no other bit.
C13_KeyUsageBits ==
    op = "KeyUsageExtension" =>
        bitsSet(ret.bytes) =
            {usageBitNumber(args.usages[i]) : i \in 1..Len(args.usages)}

\* The usages for which the bits are the standard ones: digital signature
\* and content commitment, the only ones GenerateCSR passes.
C13_FirstTwoUsages ==
    (op = "KeyUsageExtension"
        /\ \A i \in 1..Len(args.usages) :
              args.usages[i] \in {KeyUsageDigitalSignature, KeyUsageContentCommitment})
    => bitsSet(ret.bytes) =
            {usageBitNumber(args.usages[i]) : i \in 1..Len(args.usages)}

\* Whether, in the extension list exts, the key-usage extension 2.5.29.15 is
\* present and the only critical one, every other extension is one of
\* 2.5.29.37, 2.5.29.14 and 1.3.6.1.5.5.7.1.3, and no identifier occurs twice.
criticalityAsClaimed(exts) ==
    /\ \E i \in 1..Len(exts) : exts[i].Id = <<2, 5, 29, 15>>
    /\ \A i \in 1..Len(exts) :
        /\ exts[i].Id \in {<<2, 5, 29, 15>>, <<2, 5, 29, 37>>, <<2, 5, 29, 14>>,
                           <<1, 3, 6, 1, 5, 5, 7, 1, 3>>}
        /\ exts[i].Critical <=> (exts[i].Id = <<2, 5, 29, 15>>)
        /\ \A j \in 1..Len(exts) : exts[i].Id = exts[j].Id => i = j

\* C14: in every extension list GenerateCSR assembles, the key-usage
\* extension carries identifier 2.5.29.15 and is the only extension marked
\* critical, the extended-key-usage, subject-key-identifier and
\* qualified-statement extensions are not critical, and no identifier
\* occurs twice.
C14_OnlyKeyUsageCritical ==
    /\ pc \in {"buildSubject", "CreateCertificateRequest", "return"} =>
        criticalityAsClaimed(extensions)
    /\ (op = "GenerateCSR" /\ ret.csr # noCSR) =>
        criticalityAsClaimed(ret.csr.ExtraExtensions)

\* GenerateCSR has assembled the four extensions of a QWAC request.
C14_Witness ==
    /\ pc = "buildSubject"
    /\ args.t = QWACType
    /\ Len(extensions) = 4
    /\ extensions[1].Critical
    /\ ~extensions[2].Critical

\* The values of the extensions of the list exts that carry identifier id.
valuesOf(exts, id) == {exts[i].Value : i \in {j \in 1..Len(exts) : exts[j].Id = id}}

\* C15: for every successful GenerateCSR, the value of the
\* qualified-statement extension 1.3.6.1.5.5.7.1.3 of the request is the
\* output of Serialize verbatim, and Extract of that value returns the
\* roles of the caller in order and the name and id of the authority
\* registered for countryCode.
C15_StatementVerbatim ==
    (op = "GenerateCSR" /\ pc = "done" /\ ret.err = "nil") =>
        /\ args.code \in DOMAIN caMapInit
        /\ valuesOf(ret.csr.ExtraExtensions, <<1, 3, 6, 1, 5, 5, 7, 1, 3>>) =
                {Serialize(args.roles, caMapInit[args.code], args.t).bytes}
        /\ \A v \in valuesOf(ret.csr.ExtraExtensions, <<1, 3, 6, 1, 5, 5, 7, 1, 3>>) :
                Extract(v) = [roles |-> args.roles,
                              name |-> caMapInit[args.code].Name,
                              id |-> caMapInit[args.code].ID, err |-> "nil"]

\* GenerateCSR has returned a request for two roles.
C15_Witness ==
    /\ op = "GenerateCSR"
    /\ pc = "done"
    /\ ret.err = "nil"
    /\ ret.csr # noCSR
    /\ args.roles = <<RolePaymentInitiation, RoleAccountServicing>>
    /\ args.code = DE

\* Whether the arguments a make a step of GenerateCSR fail: no authority for
\* the country code, a role outside the closed set, a type that is neither
\* flavor, or a subject string that cannot be encoded.
argumentsFail(a) ==
    \/ a.code \notin DOMAIN caMapInit
    \/ \E i \in 1..Len(a.roles) : a.roles[i] \notin ValidTokens
    \/ a.t \notin {QWACType, QSEALType}
    \/ \E s \in {a.code, a.orgName, a.orgID, a.commonName} : ~stringOK(s)

\* C16: whenever a step of GenerateCSR fails, GenerateCSR returns an error
\* together with no request and no key, never a request built from a partial
\* or default value of the failed step; it returns a key if and only if it
\* returns a request.
C16_FailuresReturnNothing ==
    (op = "GenerateCSR" /\ pc \in {"return", "done"}) =>
        /\ ret.err # "nil" => (ret.csr = noCSR /\ ret.key = 0)
        /\ ret.err = "nil" => (ret.csr # noCSR /\ ret.key # 0)
        /\ (ret.key # 0) <=> (ret.csr # noCSR)
        /\ argumentsFail(args) => ret.err # "nil"

\* GenerateCSR has failed at the subject, after the key, the statement and
\* the extensions were made, and has returned neither request nor key.
C16_Witness ==
    /\ op = "GenerateCSR"
    /\ pc = "done"
    /\ ret.err = "failed to build CSR subject"
    /\ ret.csr = noCSR
    /\ ret.key = 0

\* What GenerateCSR returns for the arguments a when it runs alone on the
\* tables as initialised, the key generator yielding k (0: none) and the
\* signer succeeding or not.
generateCSRAlone(a, k, signed) ==
    IF k = 0 THEN [noRet EXCEPT !.err = "failed to generate key pair"]
    ELSE IF a.code \notin DOMAIN caMapInit
    THEN [noRet EXCEPT !.err = "unknown country code"]
    ELSE IF Serialize(a.roles, caMapInit[a.code], a.t).err # "nil"
    THEN [noRet EXCEPT !.err = Serialize(a.roles, caMapInit[a.code], a.t).err]
    ELSE IF keyUsageForType(a.t).err # "nil"
    THEN [noRet EXCEPT !.err = keyUsageForType(a.t).err]
    ELSE IF extendedKeyUsageForType(a.t).err # "nil"
    THEN [noRet EXCEPT !.err = extendedKeyUsageForType(a.t).err]
    ELSE IF buildSubject(a.code, a.orgName, a.commonName, a.orgID).err # "nil"
    THEN [noRet EXCEPT !.err = "failed to build CSR subject"]
    ELSE IF ~signed THEN [noRet EXCEPT !.err = "failed to generate csr"]
    ELSE [noRet EXCEPT !.key = k, !.csr =
            [RawSubject |->
                buildSubject(a.code, a.orgName, a.commonName, a.orgID).bytes,
             ExtraExtensions |->
                assembleExtensions(keyUsageForType(a.t).usages,
                    extendedKeyUsageForType(a.t).oids, k,
                    Serialize(a.roles, caMapInit[a.code], a.t).bytes),
             key |-> k]]

\* What a call of operation o with arguments a returns when it runs alone
\* on the tables as initialised; r is what it did return, from which the
\* key of the extension builders is taken.
peerAlone(o, a, r) ==
    CASE o = "CompetentAuthorityForCountryCode" ->
            retOfLookup(CompetentAuthorityForCountryCode(caMapInit, a.code))
      [] o = "Serialize" ->
            retOfSerialize(Serialize(a.roles, caMapInit[a.code], a.t))
      [] o = "Extract" ->
            retOfExtract(Extract(Serialize(a.roles, caMapInit[a.code], a.t).bytes))
      [] o = "keyUsageForType" -> retOfKeyUsage(keyUsageForType(a.t))
      [] o = "extendedKeyUsageForType" ->
            retOfExtendedKeyUsage(extendedKeyUsageForType(a.t))
      [] o = "extension builders" ->
            [noRet EXCEPT !.key = r.key, !.csr.ExtraExtensions =
                <<KeyUsageExtension(<<KeyUsageDigitalSignature>>),
                  extendedKeyUsageExtension(<<TLSWWWServerAuthUsage>>),
                  subjectKeyIdentifier(r.key), qcStatementsExtension(Payload1)>>]
      [] o = "buildSubject" ->
            retOfSerialize(buildSubject(a.code, a.orgName, a.commonName, a.orgID))

\* C17: no operation writes to the authority table, so for two concurrent
\* callers and every interleaving of the steps of a GenerateCSR of the one
\* with the calls of the other, each call returns what it returns when it
\* runs alone.  (The role-code table roleMap is a constant of the model:
\* the source holds no assignment to it.)
C17_ConcurrentCallsAsAlone ==
    /\ caMap = caMapInit
    /\ peer.pc = "done" => peer.ret = peerAlone(peer.op, peer.args, peer.ret)
    /\ (op = "GenerateCSR" /\ pc = "done") =>
        \E k \in Keys \cup {0}, signed \in BOOLEAN :
            ret = generateCSRAlone(args, k, signed)

\* GenerateCSR has returned a request while the second caller holds the
\* result of a lookup it made meanwhile.
C17_Witness ==
    /\ op = "GenerateCSR"
    /\ pc = "done"
    /\ ret.err = "nil"
    /\ ret.csr # noCSR
    /\ peer.pc = "done"
    /\ peer.op = "CompetentAuthorityForCountryCode"
    /\ peer.args.code = args.code

\* The identifier octets of the values that the attributes of type oid
\* carry in an encoded subject.
valueTypes(bytes, oid) ==
    LET rdns == derElements(derElements(bytes)[1].val)
    IN  {child(derElements(rdns[i].val)[1], 2).ident :
            i \in {j \in 1..Len(rdns) :
                    derOID(child(derElements(rdns[j].val)[1], 1)) = oid}}

\* C18: for every organization-identifier string, strings made only of
\* letters, digits, spaces and hyphens included, the value of the 2.5.4.97
\* attribute of the subject buildSubject produces is encoded as a UTF8String.
C18_OrgIDIsUTF8String ==
    pc = "CreateCertificateRequest" =>
        valueTypes(subject, <<2, 5, 4, 97>>) = {TagUTF8String}

\* What buildSubject does write: a PrintableString for an organization
\* identifier made of printable characters only, a UTF8String otherwise.
C18_PrintableWhenPossible ==
    pc = "CreateCertificateRequest" =>
        valueTypes(subject, <<2, 5, 4, 97>>) =
            {IF \A i \in 1..Len(args.orgID) : isPrintable(args.orgID[i])
             THEN TagPrintableString ELSE TagUTF8String}

\* The bits set in the key-usage extensions 2.5.29.15 of the list exts.
keyUsageBitsOf(exts) ==
    UNION {bitsSet(v) : v \in valuesOf(exts, <<2, 5, 29, 15>>)}

stepsInOrder ==
    <<"GenerateKey", "CompetentAuthorityForCountryCode", "Serialize",
      "keyUsageForType", "extendedKeyUsageForType", "extensions", "buildSubject",
      "CreateCertificateRequest">>

\* C20: in every execution of GenerateCSR the signer is called at most once,
\* and only after key generation, authority lookup, Serialize, key-usage
\* selection, extended-key-usage selection and subject building have all
\* succeeded, in that order; if any of them fails the signer is never called.
C20_SignerOnceAfterAll ==
    [][ \* a step is entered from the step before it only, the first from idle
        /\ \A i \in 1..Len(stepsInOrder) :
            (pc' = stepsInOrder[i] /\ pc # pc') =>
                pc = (IF i = 1 THEN "idle" ELSE stepsInOrder[i - 1])
        \* the signer is called in the last step only, once, and with what
        \* the steps before it yielded
        /\ signerCalls' # signerCalls =>
            \/ /\ signerCalls' = 1
               /\ signerCalls = 0
               /\ pc = "CreateCertificateRequest"
               /\ ~argumentsFail(args)
               /\ key \in Keys
               /\ ca = {args.code}
               /\ qc = Serialize(args.roles, caMapInit[args.code], args.t).bytes
               /\ keyUsage = keyUsageForType(args.t).usages
               /\ extendedKeyUsage = extendedKeyUsageForType(args.t).oids
               /\ subject = buildSubject(args.code, args.orgName,
                                         args.commonName, args.orgID).bytes
               /\ subject # <<>>
            \/ signerCalls' = 0 /\ pc' = "done"
        \* a return from a step before the signer is a failure, made without
        \* a call of the signer
        /\ (pc' = "done" /\ pc \in {stepsInOrder[i] : i \in 1..(Len(stepsInOrder) - 1)}) =>
            (ret'.err # "nil" /\ signerCalls = 0)
        \* the return after the signer follows exactly one call
        /\ (pc' = "done" /\ pc = "return") => signerCalls = 1
      ]_vars

\* The signer has been called, once, for a request whose steps all
\* succeeded.
C20_Witness ==
    /\ pc = "return"
    /\ signerCalls = 1
    /\ key \in Keys
    /\ subject # <<>>

----------------------------------------------------------------------------
\* The role list each value of -roles stands for.
rolesOfFlag(s) ==
    CASE s = <<80, 83, 80, 95, 65, 73>> -> <<RoleAccountInformation>>
      [] s = <<80, 83, 80, 95, 65, 83, 44, 80, 83, 80, 95, 80, 73>> ->
            <<RoleAccountServicing, RolePaymentInitiation>>
      [] s = <<>> -> << <<>> >>
      [] s = <<80, 83, 80, 95, 65, 73, 44, 80, 83, 80, 95, 88, 88>> ->
            <<RoleAccountInformation, RoleUnknown>>

\* The file at path p holds a PEM block of the given type.
holds(p, type) ==
    /\ cli.files[p].exists
    /\ \E i \in 1..Len(cli.files[p].blocks) : cli.files[p].blocks[i].Type = type

\* No output file is opened or truncated unless the four required flags are
\* non-empty, the type flag is QWAC or QSEAL and GenerateCSR has returned a
\* request for the comma-split role list.
filesOnlyAfterRequest ==
    cli.ops # <<>> =>
        /\ <<>> \notin {cli.countryCode, cli.orgName, cli.orgID, cli.commonName}
        /\ cli.qcType \in {<<81, 87, 65, 67>>, <<81, 83, 69, 65, 76>>}
        /\ cli.d # noCSR
        /\ cli.key # 0
        /\ cli.d.RawSubject = buildSubject(cli.countryCode, cli.orgName,
                                           cli.commonName, cli.orgID).bytes
        /\ valuesOf(cli.d.ExtraExtensions, <<1, 3, 6, 1, 5, 5, 7, 1, 3>>) # {}
        /\ \A v \in valuesOf(cli.d.ExtraExtensions, <<1, 3, 6, 1, 5, 5, 7, 1, 3>>) :
                Extract(v).roles = rolesOfFlag(cli.roles)

\* The request file is written before the key file, and the key file is
\* touched only after every call of writeCSR on the request file succeeded.
requestBeforeKey ==
    \A i \in 1..Len(cli.ops) :
        cli.ops[i].by = "writeKey" =>
            /\ i > 3
            /\ cli.ops[i].path = cli.outKey
            /\ \A j \in 1..3 : /\ cli.ops[j].by = "writeCSR"
                               /\ cli.ops[j].path = cli.outCSR
                               /\ cli.ops[j].err = "nil"
            /\ <<cli.ops[1].call, cli.ops[2].call, cli.ops[3].call>> =
                    <<"OpenFile", "Encode", "Close">>

\* C21: in every run of the command-line tool, no output file is opened or
\* truncated unless all four required flags are non-empty, the type flag is
\* QWAC or QSEAL and GenerateCSR succeeded for the comma-split role list; the
\* request file is written before the key file, and the key file only if
\* writing the request file succeeded, so that a key file is never produced
\* without its request file.
C21_KeyNeverWithoutRequest ==
    /\ filesOnlyAfterRequest
    /\ requestBeforeKey
    /\ \A p \in DOMAIN cli.files :
            (p = cli.outKey /\ holds(p, "PRIVATE KEY")) =>
                holds(cli.outCSR, "CERTIFICATE REQUEST")

\* The part of C21 that holds of every run: the conditions under which a
\* file is opened, the order of the writes, and the request file next to the
\* key file whenever -csr and -key name different paths.
C21_WhenPathsDiffer ==
    /\ filesOnlyAfterRequest
    /\ requestBeforeKey
    /\ \A p \in DOMAIN cli.files :
            (p = cli.outKey /\ holds(p, "PRIVATE KEY") /\ cli.outKey # cli.outCSR) =>
                holds(cli.outCSR, "CERTIFICATE REQUEST")

\* The tool has exited with status 0 after writing both files to different
\* paths.
C21_BothFilesWritten ==
    /\ cli.pc = "exit"
    /\ cli.status = 0
    /\ cli.outKey # cli.outCSR
    /\ holds(cli.outKey, "PRIVATE KEY")
    /\ holds(cli.outCSR, "CERTIFICATE REQUEST")
    /\ Len(cli.ops) = 6

----------------------------------------------------------------------------
\* C22: the authority table keeps its initial contents in every reachable
\* state, even when a caller modifies the CompetentAuthority value it got
\* back from CompetentAuthorityForCountryCode: a later lookup of the same
\* country code, and a later GenerateCSR for it, still use the original name
\* and id.
C22_TableKeepsContents ==
    /\ caMap = caMapInit
    /\ (op = "CompetentAuthorityForCountryCode" /\ pc = "done") =>
            \A c \in ret.ptr : caMap[c] = caMapInit[c]
    /\ (op = "GenerateCSR" /\ pc = "done" /\ ret.err = "nil") =>
            \A v \in valuesOf(ret.csr.ExtraExtensions, <<1, 3, 6, 1, 5, 5, 7, 1, 3>>) :
                /\ Extract(v).name = caMapInit[args.code].Name
                /\ Extract(v).id = caMapInit[args.code].ID

\* What holds instead: every entry of the table other than those the caller
\* wrote to keeps its contents, and a GenerateCSR that returns a request
\* carries the name and the id the table holds by then.
C22_LaterCallsSeeWrite ==
    /\ \A c \in DOMAIN caMapInit \ {GB, DE} : caMap[c] = caMapInit[c]
    /\ DOMAIN caMap = DOMAIN caMapInit
    /\ (op = "GenerateCSR" /\ pc = "done" /\ ret.err = "nil") =>
            \A v \in valuesOf(ret.csr.ExtraExtensions, <<1, 3, 6, 1, 5, 5, 7, 1, 3>>) :
                /\ Extract(v).name = caMap[args.code].Name
                /\ Extract(v).id = caMap[args.code].ID

\* A GenerateCSR for GB has returned a request naming the authority the
\* caller wrote.
C22_WrittenNameInRequest ==
    /\ op = "GenerateCSR"
    /\ pc = "done"
    /\ ret.err = "nil"
    /\ args.code = GB
    /\ \E v \in valuesOf(ret.csr.ExtraExtensions, <<1, 3, 6, 1, 5, 5, 7, 1, 3>>) :
            /\ Extract(v).name = <<69, 118, 105, 108, 32, 67, 65>>
            /\ Extract(v).id = caMapInit[GB].ID

----------------------------------------------------------------------------
\* The object identifier in the certificate-type element of the qualified
\* statement bytes: root.QcType.Detail[0].
typeElementOf(bytes) ==
    derOID(child(child(child(derElements(bytes)[1], 1), 2), 1))

\* C23: every request that GenerateCSR returns carries a qualified statement
\* whose certificate-type element is the website-authentication identifier
\* {0,4,0,1862,1,6,3} or the seal identifier {0,4,0,1862,1,6,2}; Serialize
\* itself accepts and encodes another object identifier as the flavor, but
\* GenerateCSR called with any other flavor returns an error and no request.
C23_OnlyKnownFlavors ==
    /\ (op = "GenerateCSR" /\ pc = "done" /\ ret.err = "nil") =>
            /\ valuesOf(ret.csr.ExtraExtensions, <<1, 3, 6, 1, 5, 5, 7, 1, 3>>) # {}
            /\ \A v \in valuesOf(ret.csr.ExtraExtensions, <<1, 3, 6, 1, 5, 5, 7, 1, 3>>) :
                    /\ typeElementOf(v) = args.t
                    /\ typeElementOf(v) \in {<<0, 4, 0, 1862, 1, 6, 3>>,
                                             <<0, 4, 0, 1862, 1, 6, 2>>}
    /\ (op = "GenerateCSR" /\ pc = "done"
            /\ args.t \notin {<<0, 4, 0, 1862, 1, 6, 3>>, <<0, 4, 0, 1862, 1, 6, 2>>}) =>
            /\ ret.err # "nil"
            /\ ret.csr = noCSR
            /\ ret.key = 0
    /\ (op = "Serialize" /\ pc = "done" /\ args.t = <<0, 4, 0, 1862, 1, 6>>
            /\ \A i \in 1..Len(args.roles) : args.roles[i] \in ValidTokens) =>
            /\ ret.err = "nil"
            /\ typeElementOf(ret.bytes) = args.t

\* GenerateCSR, called for the seal flavor, has returned a request.
C23_Witness ==
    /\ op = "GenerateCSR"
    /\ pc = "done"
    /\ ret.err = "nil"
    /\ ret.csr # noCSR
    /\ args.t = QSEALType

\* GenerateCSR, called with an identifier that Serialize encodes but that is
\* neither flavor, has returned the error of keyUsageForType.
C23_OtherFlavorRefused ==
    /\ op = "GenerateCSR"
    /\ pc = "done"
    /\ args.t = oidQcType
    /\ args.code = GB
    /\ args.roles = <<RoleAccountInformation>>
    /\ ret.err = keyUsageForType(oidQcType).err
    /\ ret.csr = noCSR

----------------------------------------------------------------------------
\* The number of zero bits at the low end of the octet b, 8 for b = 0.
RECURSIVE trailingZeroBits(_)
trailingZeroBits(b) ==
    IF b = 0 THEN 8 ELSE IF b % 2 = 1 THEN 0 ELSE 1 + trailingZeroBits(b \div 2)

\* Whether the octets are one BIT STRING in the canonical form of a
\* named-bit list: after the octet counting the unused bits, no content
\* octet at all if no bit is set, else a last content octet that is not
\* zero and whose zero bits at the low end are exactly the unused ones.
canonicalNamedBits(bytes) ==
    /\ Len(derElements(bytes)) = 1
    /\ derElements(bytes)[1].ident = 3
    /\ Len(derElements(bytes)[1].val) >= 1
    /\ LET v == derElements(bytes)[1].val
       IN  IF Len(v) = 1 THEN v[1] = 0
           ELSE /\ v[Len(v)] # 0
                /\ v[1] = trailingZeroBits(v[Len(v)])

\* C24: the key-usage BIT STRING produced by KeyUsageExtension is a canonical
\* DER named-bit list: it has no trailing zero bits and no trailing zero
\* content octet, and its unused-bits octet matches the highest set bit,
\* i.e. one content octet with 7 unused bits for the website-authentication
\* usages and one content octet with 6 unused bits for the seal usages.
C24_CanonicalBitString ==
    (op = "KeyUsageExtension" /\ pc = "done") =>
        /\ canonicalNamedBits(ret.bytes)
        /\ args.usages = <<1>> => ret.bytes = <<3, 2, 7, 128>>
        /\ args.usages = <<1, 2>> => ret.bytes = <<3, 2, 6, 192>>

\* What KeyUsageExtension returns instead: two content octets, the second
\* of them zero, after an unused-bits octet of 0.
C24_TwoOctetsNoUnusedBits ==
    (op = "KeyUsageExtension" /\ pc = "done") =>
        /\ Len(ret.bytes) = 5
        /\ SubSeq(ret.bytes, 1, 3) = <<3, 3, 0>>
        /\ ret.bytes[5] = 0
        /\ args.usages = <<1>> => ret.bytes = <<3, 3, 0, 128, 0>>
        /\ args.usages = <<1, 2>> => ret.bytes = <<3, 3, 0, 192, 0>>
        /\ ~canonicalNamedBits(ret.bytes)

====
